---- MODULE Spec2Model ----
(***************************************************************************)
(* Resource query engine of kana-dojo: predicate filters, the filter       *)
(* combinator, the search matcher and the count aggregator, applied to an  *)
(* in-memory array of Resource records.                                    *)
(*                                                                         *)
(* A JavaScript string is a sequence of characters, each character a       *)
(* one-element token; an array is a record [ref, items] where ref tells    *)
(* array objects apart and items is the sequence of elements.              *)
(*                                                                         *)
(* resources is the record array the queries read, activeFilters the      *)
(* ActiveFilters object the caller holds, op the function last called,     *)
(* args its arguments and result the value it returned.  hookQuery,        *)
(* debouncedQuery, timers, effectTimer and rendered are the state of the   *)
(* useSearch hook: its two state cells, the pending timeouts, the timeout  *)
(* the current effect set, and the values the last render returned.        *)
(*                                                                         *)
(* panelFilters is the filters prop the FilterPanel was last rendered      *)
(* with (activeFilters is then the filters state of ResourcesPageClient),  *)
(* selectedResource and isModalOpen are the modal state of that page.      *)
(* resourcesByCategory and allResourcesCache are the module state of the   *)
(* data module.  itemCount, columns and focusedIndex are the cards of a    *)
(* rendered ResourceGrid, the columns of its layout and the card that has  *)
(* the focus.                                                              *)
(***************************************************************************)
EXTENDS Integers, Sequences, FiniteSets, TLC

VARIABLES resources, activeFilters, op, args, result,
          hookQuery, debouncedQuery, timers, effectTimer, rendered,
          panelFilters, selectedResource, isModalOpen,
          resourcesByCategory, allResourcesCache,
          itemCount, columns, focusedIndex

\* the state of the useSearch hook
hookVars == <<hookQuery, debouncedQuery, timers, effectTimer, rendered>>

\* the state of ResourcesPageClient besides its filters, and the props of
\* its FilterPanel
clientVars == <<panelFilters, selectedResource, isModalOpen>>

\* the module state of the data module
dataVars == <<resourcesByCategory, allResourcesCache>>

\* the state of a rendered ResourceGrid
gridVars == <<itemCount, columns, focusedIndex>>

\* the state outside the query engine and the useSearch hook
pageVars == <<clientVars, dataVars, gridVars>>

\* the state a call of a query function leaves alone
frame == <<resources, activeFilters, hookVars, pageVars>>

\* the function called, its arguments and the value it returned
callVars == <<op, args, result>>

vars == <<resources, activeFilters, op, args, result, hookVars, pageVars>>

(***************************************************************************)
(* Bounds of the model.                                                    *)
(***************************************************************************)
MaxLen == 2

MaxQuery == 2

MaxStrokes == 2

MaxChanged == 1

\* the debounce delay in ticks of the clock
DebounceMs == 2

\* the timeouts that can be pending at once
MaxTimers == 2

(***************************************************************************)
(* Generic helpers.                                                        *)
(***************************************************************************)
BoundedSeq(S, n) == UNION {[1..k -> S] : k \in 0..n}

Range(s) == {s[i] : i \in DOMAIN s}

\* Array.prototype.includes on an array of primitives
includes(arr, v) == \E i \in DOMAIN arr : arr[i] = v

\* Array.prototype.some
some(arr, P(_)) == \E i \in DOMAIN arr : P(arr[i])

\* Array.prototype.filter: always allocates a new array object
filter(arr, P(_)) == [ref |-> arr.ref + 1, items |-> SelectSeq(arr.items, P)]

(***************************************************************************)
(* Types (types.ts).  The enumerations are cut down to two values each;    *)
(* UnknownCategory stands for a string that is no CategoryId.              *)
(***************************************************************************)
Undefined == <<"undefined">>

\* null, where the other values are objects
Null == [null |-> TRUE]

DifficultyLevel == {"beginner", "advanced"}

PriceType == {"free", "paid"}

Platform == {"web", "ios"}

CategoryId == {"apps", "websites"}

UnknownCategory == "no-such-category"

SubcategoryId == {"flashcards", "dictionaries"}

Resource(id, name, nameJa, description, descriptionLong, category, subcategory, tags, difficulty, priceType, platforms) ==
    [id |-> id, name |-> name, nameJa |-> nameJa,
     description |-> description, descriptionLong |-> descriptionLong,
     category |-> category, subcategory |-> subcategory, tags |-> tags,
     difficulty |-> difficulty, priceType |-> priceType,
     platforms |-> platforms]

ActiveFilters(difficulty, priceType, platforms, search) ==
    [difficulty |-> difficulty, priceType |-> priceType,
     platforms |-> platforms, search |-> search]

(***************************************************************************)
(* Predicate filters and the combinator (lib/filters.ts).                  *)
(***************************************************************************)
\* mutant: the category is compared with the wrong field
filterByCategory_wrongField(rs, category) ==
    LET keep(r) == r.subcategory = category
    IN  filter(rs, keep)

filterByCategory(rs, category) ==
    LET keep(r) == r.category = category
    IN  filter(rs, keep)

filterBySubcategory(rs, subcategory) ==
    LET keep(r) == r.subcategory = subcategory
    IN  filter(rs, keep)

\* mutant: || in place of &&
filterByCategoryAndSubcategory_or(rs, category, subcategory) ==
    LET keep(r) == r.category = category \/ r.subcategory = subcategory
    IN  filter(rs, keep)

filterByCategoryAndSubcategory(rs, category, subcategory) ==
    LET keep(r) == r.category = category /\ r.subcategory = subcategory
    IN  filter(rs, keep)

\* mutant: an empty selection excludes every record
filterByDifficulty_emptyExcludes(rs, difficulties) ==
    LET keep(r) == includes(difficulties, r.difficulty)
    IN  filter(rs, keep)

filterByDifficulty(rs, difficulties) ==
    LET keep(r) == includes(difficulties, r.difficulty)
    IN  IF Len(difficulties) = 0 THEN rs ELSE filter(rs, keep)

\* mutant: only the first selected value is looked at
filterByPriceType_first(rs, priceTypes) ==
    LET keep(r) == r.priceType = priceTypes[1]
    IN  IF Len(priceTypes) = 0 THEN rs ELSE filter(rs, keep)

filterByPriceType(rs, priceTypes) ==
    LET keep(r) == includes(priceTypes, r.priceType)
    IN  IF Len(priceTypes) = 0 THEN rs ELSE filter(rs, keep)

\* mutant: a record must have all of its platforms selected
filterByPlatform_every(rs, platforms) ==
    LET keep(r) == \A i \in DOMAIN r.platforms :
                       includes(platforms, r.platforms[i])
    IN  IF Len(platforms) = 0 THEN rs ELSE filter(rs, keep)

filterByPlatform(rs, platforms) ==
    LET selected(p) == includes(platforms, p)
        keep(r) == some(r.platforms, selected)
    IN  IF Len(platforms) = 0 THEN rs ELSE filter(rs, keep)

\* mutant: a non-empty search string is applied as a filter on the name
combineFilters_withSearch(rs, filters) ==
    LET r1 == IF Len(filters.difficulty) > 0
              THEN filterByDifficulty(rs, filters.difficulty) ELSE rs
        r2 == IF Len(filters.priceType) > 0
              THEN filterByPriceType(r1, filters.priceType) ELSE r1
        r3 == IF Len(filters.platforms) > 0
              THEN filterByPlatform(r2, filters.platforms) ELSE r2
        named(r) == r.name = filters.search
    IN  IF Len(filters.search) > 0 THEN filter(r3, named) ELSE r3

\* mutant: the price dimension is never applied
combineFilters_noPrice(rs, filters) ==
    LET r1 == IF Len(filters.difficulty) > 0
              THEN filterByDifficulty(rs, filters.difficulty) ELSE rs
        r3 == IF Len(filters.platforms) > 0
              THEN filterByPlatform(r1, filters.platforms) ELSE r1
    IN  r3

combineFilters(rs, filters) ==
    LET r1 == IF Len(filters.difficulty) > 0
              THEN filterByDifficulty(rs, filters.difficulty) ELSE rs
        r2 == IF Len(filters.priceType) > 0
              THEN filterByPriceType(r1, filters.priceType) ELSE r1
        r3 == IF Len(filters.platforms) > 0
              THEN filterByPlatform(r2, filters.platforms) ELSE r2
    IN  r3

createEmptyFilters == ActiveFilters(<<>>, <<>>, <<>>, <<>>)

\* no useSearch hook is mounted
HookUnused ==
    /\ hookQuery = <<>>
    /\ debouncedQuery = <<>>
    /\ timers = <<>>
    /\ effectTimer = 0
    /\ rendered = <<>>

\* no page is mounted, the data module is not loaded and no grid is rendered
PageUnused ==
    /\ panelFilters = createEmptyFilters
    /\ selectedResource = Null
    /\ isModalOpen = FALSE
    /\ resourcesByCategory = <<>>
    /\ allResourcesCache = Null
    /\ itemCount = 0
    /\ columns = 1
    /\ focusedIndex = 0

(***************************************************************************)
(* JavaScript strings.  The alphabet has a lower-case letter "s", its      *)
(* upper-case form "S", the letter "sz" (U+00DF, sharp s: lower case,      *)
(* upper-cased to the two letters "SS"), the space "sp" and the caseless   *)
(* digit "1".                                                              *)
(***************************************************************************)
Chars == {"s", "S", "sz", "sp", "1"}

isWhitespace(ch) == ch = "sp"

lowerChar(ch) == IF ch = "S" THEN <<"s">> ELSE <<ch>>

upperChar(ch) ==
    IF ch = "s" THEN <<"S">>
    ELSE IF ch = "sz" THEN <<"S", "S">>
    ELSE <<ch>>

RECURSIVE toLowerCase(_)
\* String.prototype.toLowerCase
toLowerCase(str) ==
    IF str = <<>> THEN <<>>
    ELSE lowerChar(Head(str)) \o toLowerCase(Tail(str))

RECURSIVE toUpperCase(_)
\* String.prototype.toUpperCase
toUpperCase(str) ==
    IF str = <<>> THEN <<>>
    ELSE upperChar(Head(str)) \o toUpperCase(Tail(str))

RECURSIVE trimStart(_)
trimStart(str) ==
    IF str # <<>> /\ isWhitespace(Head(str)) THEN trimStart(Tail(str))
    ELSE str

RECURSIVE trimEnd(_)
trimEnd(str) ==
    IF str # <<>> /\ isWhitespace(str[Len(str)])
    THEN trimEnd(SubSeq(str, 1, Len(str) - 1))
    ELSE str

\* String.prototype.trim
trim(str) == trimEnd(trimStart(str))

\* String.prototype.includes
strIncludes(str, searchString) ==
    \E k \in 0..(Len(str) - Len(searchString)) :
        SubSeq(str, k + 1, k + Len(searchString)) = searchString

\* truthiness of an optional string: undefined and "" are falsy
truthy(v) == v # Undefined /\ v # <<>>

(***************************************************************************)
(* Search matcher (lib/search.ts).                                         *)
(***************************************************************************)
\* mutant: the query is trimmed but not lower-cased
searchResources_caseSensitive(rs, query) ==
    LET trimmedQuery == trim(query)
        keep(r) ==
            \/ strIncludes(toLowerCase(r.name), trimmedQuery)
            \/ truthy(r.nameJa)
                  /\ strIncludes(toLowerCase(r.nameJa), trimmedQuery)
            \/ strIncludes(toLowerCase(r.description), trimmedQuery)
            \/ truthy(r.descriptionLong)
                  /\ strIncludes(toLowerCase(r.descriptionLong), trimmedQuery)
            \/ \E i \in DOMAIN r.tags :
                  strIncludes(toLowerCase(r.tags[i]), trimmedQuery)
    IN  IF Len(trimmedQuery) = 0 THEN rs ELSE filter(rs, keep)

searchResources(rs, query) ==
    LET trimmedQuery == toLowerCase(trim(query))
        keep(r) ==
            \/ strIncludes(toLowerCase(r.name), trimmedQuery)
            \/ truthy(r.nameJa)
                  /\ strIncludes(toLowerCase(r.nameJa), trimmedQuery)
            \/ strIncludes(toLowerCase(r.description), trimmedQuery)
            \/ truthy(r.descriptionLong)
                  /\ strIncludes(toLowerCase(r.descriptionLong), trimmedQuery)
            \/ \E i \in DOMAIN r.tags :
                  strIncludes(toLowerCase(r.tags[i]), trimmedQuery)
    IN  IF Len(trimmedQuery) = 0 THEN rs ELSE filter(rs, keep)

\* mutant: the query is lower-cased but not trimmed
resourceMatchesQuery_noTrim(resource, query) ==
    LET trimmedQuery == toLowerCase(query)
    IN  IF Len(trimmedQuery) = 0 THEN TRUE
        ELSE IF strIncludes(toLowerCase(resource.name), trimmedQuery)
        THEN TRUE
        ELSE IF truthy(resource.nameJa)
                /\ strIncludes(toLowerCase(resource.nameJa), trimmedQuery)
        THEN TRUE
        ELSE IF strIncludes(toLowerCase(resource.description), trimmedQuery)
        THEN TRUE
        ELSE IF truthy(resource.descriptionLong)
                /\ strIncludes(toLowerCase(resource.descriptionLong),
                               trimmedQuery)
        THEN TRUE
        ELSE IF \E i \in DOMAIN resource.tags :
                   strIncludes(toLowerCase(resource.tags[i]), trimmedQuery)
        THEN TRUE
        ELSE FALSE

resourceMatchesQuery(resource, query) ==
    LET trimmedQuery == toLowerCase(trim(query))
    IN  IF Len(trimmedQuery) = 0 THEN TRUE
        ELSE IF strIncludes(toLowerCase(resource.name), trimmedQuery)
        THEN TRUE
        ELSE IF truthy(resource.nameJa)
                /\ strIncludes(toLowerCase(resource.nameJa), trimmedQuery)
        THEN TRUE
        ELSE IF strIncludes(toLowerCase(resource.description), trimmedQuery)
        THEN TRUE
        ELSE IF truthy(resource.descriptionLong)
                /\ strIncludes(toLowerCase(resource.descriptionLong),
                               trimmedQuery)
        THEN TRUE
        ELSE IF \E i \in DOMAIN resource.tags :
                   strIncludes(toLowerCase(resource.tags[i]), trimmedQuery)
        THEN TRUE
        ELSE FALSE

\* mutant: matching tags are not reported
getSearchMatchLocations_noTags(resource, query) ==
    LET trimmedQuery == toLowerCase(trim(query))
        matches(text) == strIncludes(toLowerCase(text), trimmedQuery)
    IN  [name |-> Len(trimmedQuery) > 0 /\ matches(resource.name),
         nameJa |-> Len(trimmedQuery) > 0 /\ truthy(resource.nameJa)
                       /\ matches(resource.nameJa),
         description |-> Len(trimmedQuery) > 0
                            /\ matches(resource.description),
         descriptionLong |-> Len(trimmedQuery) > 0
                                /\ truthy(resource.descriptionLong)
                                /\ matches(resource.descriptionLong),
         tags |-> <<>>]

getSearchMatchLocations(resource, query) ==
    LET trimmedQuery == toLowerCase(trim(query))
        matches(text) == strIncludes(toLowerCase(text), trimmedQuery)
    IN  IF Len(trimmedQuery) = 0
        THEN [name |-> FALSE, nameJa |-> FALSE, description |-> FALSE,
              descriptionLong |-> FALSE, tags |-> <<>>]
        ELSE [name |-> matches(resource.name),
              nameJa |-> IF truthy(resource.nameJa)
                         THEN matches(resource.nameJa) ELSE FALSE,
              description |-> matches(resource.description),
              descriptionLong |-> IF truthy(resource.descriptionLong)
                                  THEN matches(resource.descriptionLong)
                                  ELSE FALSE,
              tags |-> SelectSeq(resource.tags, matches)]

\* the memo of the resources page: the search, if any, then the filters
filteredResources(initialResources, filters) ==
    LET searched == IF Len(trim(filters.search)) > 0
                    THEN searchResources(initialResources,
                                         filters.search)
                    ELSE initialResources
    IN  combineFilters(searched, filters)

\* mutant: a platform selection does not count as an active filter
hasActiveFilters_noPlatforms(filters) ==
    \/ Len(filters.difficulty) > 0
    \/ Len(filters.priceType) > 0
    \/ Len(trim(filters.search)) > 0

\* hasActiveFilters of lib/filters.ts
hasActiveFilters(filters) ==
    \/ Len(filters.difficulty) > 0
    \/ Len(filters.priceType) > 0
    \/ Len(filters.platforms) > 0
    \/ Len(trim(filters.search)) > 0

(***************************************************************************)
(* Debounced search hook (hooks/useSearch.ts).  timers maps the id of each *)
(* pending timeout to the query its callback captured and to the ticks     *)
(* left until it is due.  An event is handled with the render it causes    *)
(* and with the effect of that render: the cleanup of the previous effect  *)
(* and the new timeout.                                                    *)
(***************************************************************************)
TimerIds == 1..MaxTimers

\* setTimeout returns an id that no pending timeout has
freeId(ts) ==
    CHOOSE id \in TimerIds \ DOMAIN ts :
        \A other \in TimerIds \ DOMAIN ts : id <= other

setTimeout(ts, captured) ==
    [id \in DOMAIN ts \cup {freeId(ts)} |->
        IF id \in DOMAIN ts THEN ts[id]
        ELSE [query |-> captured, remaining |-> DebounceMs]]

\* clearTimeout of a timeout that already ran changes nothing
clearTimeout(ts, id) == [i \in DOMAIN ts \ {id} |-> ts[i]]

\* the values a render of the hook returns
useSearch(rs, q, dq) ==
    LET results == searchResources(rs, dq)
    IN  [query |-> q, debouncedQuery |-> dq, results |-> results,
         resultCount |-> Len(results.items),
         isSearching |-> Len(trim(q)) > 0,
         isLoading |-> q # dq]

(***************************************************************************)
(* FilterPanel and ResourcesPageClient.  A handler of the panel is the     *)
(* ActiveFilters object it passes to onFilterChange, computed from the     *)
(* filters prop of the render the handler belongs to; a handler of the     *)
(* page is the next value of the page's filters state.                     *)
(***************************************************************************)
\* filterType values of handleRemoveFilter (keyof ActiveFilters)
FilterKeys == {"difficulty", "priceType", "platforms", "search"}

\* CheckboxGroup.handleToggle: the list passed to onChange
handleToggle(selected, value) ==
    IF includes(selected, value)
    THEN SelectSeq(selected, LAMBDA v : v # value)
    ELSE Append(selected, value)

handleDifficultyChange(filters, difficulty) ==
    [filters EXCEPT !.difficulty = difficulty]

\* mutant: the handler starts from empty filters instead of the prop
handlePriceChange_fromEmpty(filters, priceType) ==
    [createEmptyFilters EXCEPT !.priceType = priceType]

handlePriceChange(filters, priceType) ==
    [filters EXCEPT !.priceType = priceType]

handlePlatformChange(filters, platforms) ==
    [filters EXCEPT !.platforms = platforms]

\* only called with filterType # "search": the handler returns before
\* onFilterChange for "search"
handleRemoveFilter(filters, filterType, value) ==
    [filters EXCEPT ![filterType] =
        SelectSeq(filters[filterType], LAMBDA v : v # value)]

handleClearAll(filters) ==
    ActiveFilters(<<>>, <<>>, <<>>, filters.search)

\* setFilters(prev => ({...prev, search}))
handleSearchChange(prev, search) == [prev EXCEPT !.search = search]

\* setFilters(newFilters)
handleFilterChange(prev, newFilters) == newFilters

\* Array.prototype.slice(0, end)
slice(arr, end) ==
    [ref |-> arr.ref + 1,
     items |-> SubSeq(arr.items, 1,
                      IF Len(arr.items) < end THEN Len(arr.items) ELSE end)]

\* mutant: the selected resource is not left out
relatedResources_withSelected(initialResources, selected) ==
    IF selected = Null
    THEN [ref |-> initialResources.ref + 1, items |-> <<>>]
    ELSE LET sharesTag(r) ==
                 some(r.tags, LAMBDA tag : includes(selected.tags, tag))
             related(r) == r.category = selected.category \/ sharesTag(r)
         IN  slice(filter(initialResources, related), 4)

\* the relatedResources memo of ResourcesPageClient
relatedResources(initialResources, selected) ==
    IF selected = Null
    THEN [ref |-> initialResources.ref + 1, items |-> <<>>]
    ELSE LET sharesTag(r) ==
                 some(r.tags, LAMBDA tag : includes(selected.tags, tag))
             related(r) ==
                 /\ r.id # selected.id
                 /\ (r.category = selected.category \/ sharesTag(r))
         IN  slice(filter(initialResources, related), 4)

(***************************************************************************)
(* Data module (data/index.ts).  resourcesByCategory is an object literal: *)
(* its own properties are the category keys, in the order they were        *)
(* written, and every other property name is looked up in                  *)
(* Object.prototype.  A function object is a record with its name and its  *)
(* length (the number of its parameters).                                  *)
(***************************************************************************)
\* the keys of resourcesByCategory in insertion order
CategoryKeys == <<"apps", "websites">>

\* properties every object literal inherits
InheritedKeys == {"constructor", "toString"}

ObjectPrototype(key) ==
    CASE key = "constructor" -> [function |-> "Object", length |-> 1]
      [] key = "toString" -> [function |-> "toString", length |-> 0]

\* the length property of an array or of a function
lengthOf(value) ==
    IF "items" \in DOMAIN value THEN Len(value.items) ELSE value.length

\* Object.values(byCategory).flat()
RECURSIVE flatValues(_, _)
flatValues(byCategory, i) ==
    IF i > Len(CategoryKeys) THEN <<>>
    ELSE byCategory[CategoryKeys[i]].items \o flatValues(byCategory, i + 1)

\* the value of allResourcesCache after a call of getAllResources
getAllResources(byCategory, cache) ==
    IF cache = Null
    THEN [ref |-> 100, items |-> flatValues(byCategory, 1)]
    ELSE cache

\* resourcesByCategory[categoryId] || []
getResourcesByCategory(byCategory, categoryId) ==
    IF categoryId \in DOMAIN byCategory
    THEN byCategory[categoryId]
    ELSE IF categoryId \in InheritedKeys
    THEN ObjectPrototype(categoryId)
    ELSE [ref |-> 101, items |-> <<>>]

getTotalResourceCount(byCategory, cache) ==
    Len(getAllResources(byCategory, cache).items)

getCategoryResourceCount(byCategory, categoryId) ==
    lengthOf(getResourcesByCategory(byCategory, categoryId))

(***************************************************************************)
(* Keyboard navigation of ResourceGrid.  handleKeyDown is the index of the *)
(* card it focuses, or currentIndex when it focuses none.                  *)
(***************************************************************************)
min(a, b) == IF a < b THEN a ELSE b

max(a, b) == IF a > b THEN a ELSE b

NavigationKeys ==
    {"ArrowRight", "ArrowLeft", "ArrowDown", "ArrowUp", "Home", "End"}

\* mutant: ArrowRight wraps from the last card to the first
handleKeyDown_wrap(key, currentIndex, count, cols) ==
    CASE key = "ArrowRight" -> (currentIndex + 1) % count
      [] key = "ArrowLeft" -> max(currentIndex - 1, 0)
      [] key = "ArrowDown" -> min(currentIndex + cols, count - 1)
      [] key = "ArrowUp" -> max(currentIndex - cols, 0)
      [] key = "Home" -> 0
      [] key = "End" -> count - 1
      [] OTHER -> currentIndex

handleKeyDown(key, currentIndex, count, cols) ==
    IF count = 0 THEN currentIndex
    ELSE LET nextIndex ==
                 CASE key = "ArrowRight" -> min(currentIndex + 1, count - 1)
                   [] key = "ArrowLeft" -> max(currentIndex - 1, 0)
                   [] key = "ArrowDown" ->
                          min(currentIndex + cols, count - 1)
                   [] key = "ArrowUp" -> max(currentIndex - cols, 0)
                   [] key = "Home" -> 0
                   [] key = "End" -> count - 1
                   [] OTHER -> currentIndex
         IN  \* items[nextIndex]?.focus()
             IF nextIndex \in 0..(count - 1) THEN nextIndex
             ELSE currentIndex

(***************************************************************************)
(* Count aggregator (lib/counts.ts).  A Map is a function whose domain is  *)
(* the set of keys that were set.                                          *)
(***************************************************************************)
\* Map.prototype.get(key) ?? 0
getOrZero(map, key) == IF key \in DOMAIN map THEN map[key] ELSE 0

\* Map.prototype.set(key, value)
mapSet(map, key, value) ==
    [k \in DOMAIN map \cup {key} |-> IF k = key THEN value ELSE map[k]]

RECURSIVE countBy(_, _, _)
\* one pass over the records, incrementing the entry of each record's key
countBy(items, field, map) ==
    IF items = <<>> THEN map
    ELSE LET key == Head(items)[field]
         IN  countBy(Tail(items), field,
                     mapSet(map, key, getOrZero(map, key) + 1))

RECURSIVE sumValues(_)
sumValues(map) ==
    IF DOMAIN map = {} THEN 0
    ELSE LET k == CHOOSE x \in DOMAIN map : TRUE
         IN  map[k] + sumValues([x \in DOMAIN map \ {k} |-> map[x]])

\* mutant: a category seen again overwrites its entry with 1
getCategoryResourceCounts_noIncrement(rs) ==
    [c \in {rs.items[i].category : i \in DOMAIN rs.items} |-> 1]

getCategoryResourceCounts(rs) == countBy(rs.items, "category", <<>>)

getResourceCountForCategory(rs, category) ==
    Len(filterByCategory(rs, category).items)

\* mutant: the records are not narrowed to the category first
getSubcategoryResourceCounts_unscoped(rs, category) ==
    countBy(rs.items, "subcategory", <<>>)

getSubcategoryResourceCounts(rs, category) ==
    countBy(filterByCategory(rs, category).items, "subcategory", <<>>)

Category(id, subcategories) == [id |-> id, subcategories |-> subcategories]

Subcategory(id, parentCategory) ==
    [id |-> id, parentCategory |-> parentCategory]

\* mutant: a subcategory is counted under its own parentCategory
enrichCategoriesWithCounts_parentCategory(categories, rs) ==
    LET categoryCounts == getCategoryResourceCounts(rs)
    IN  [i \in DOMAIN categories |->
            LET category == categories[i]
            IN  [id |-> category.id,
                 subcategories |-> category.subcategories,
                 resourceCount |-> getOrZero(categoryCounts, category.id),
                 subcategoriesWithCount |->
                     [j \in DOMAIN category.subcategories |->
                         LET sub == category.subcategories[j]
                         IN  [id |-> sub.id,
                              parentCategory |-> sub.parentCategory,
                              resourceCount |->
                                  getOrZero(getSubcategoryResourceCounts(
                                      rs, sub.parentCategory), sub.id)]]]]

enrichCategoriesWithCounts(categories, rs) ==
    LET categoryCounts == getCategoryResourceCounts(rs)
    IN  [i \in DOMAIN categories |->
            LET category == categories[i]
                subcategoryCounts ==
                    getSubcategoryResourceCounts(rs, category.id)
            IN  [id |-> category.id,
                 subcategories |-> category.subcategories,
                 resourceCount |-> getOrZero(categoryCounts, category.id),
                 subcategoriesWithCount |->
                     [j \in DOMAIN category.subcategories |->
                         LET sub == category.subcategories[j]
                         IN  [id |-> sub.id,
                              parentCategory |-> sub.parentCategory,
                              resourceCount |->
                                  getOrZero(subcategoryCounts, sub.id)]]]]

\* recount from scratch and compare with every decorated count
validateCategoryCounts(categories, rs) ==
    \A i \in DOMAIN categories :
        LET category == categories[i]
        IN  /\ category.resourceCount =
                   Len(filterByCategory(rs, category.id).items)
            /\ \A j \in DOMAIN category.subcategoriesWithCount :
                   LET sub == category.subcategoriesWithCount[j]
                   IN  sub.resourceCount =
                           Len(filterByCategoryAndSubcategory(
                                   rs, category.id, sub.id).items)

(***************************************************************************)
(* JavaScript values of unknown type.  Every value is a record with its    *)
(* type tag t; a number is finite (n), NaN, Infinity or negative zero; an  *)
(* object holds its own properties as a function from names to values.     *)
(***************************************************************************)
JsUndefined == [t |-> "undefined"]

JsNull == [t |-> "null"]

JsSymbol == [t |-> "symbol"]

JsString(s) == [t |-> "string", s |-> s]

JsBoolean(b) == [t |-> "boolean", b |-> b]

JsNumber(n) == [t |-> "number", k |-> "finite", n |-> n]

JsNaN == [t |-> "number", k |-> "NaN", n |-> 0]

JsInfinity == [t |-> "number", k |-> "Infinity", n |-> 0]

JsNegZero == [t |-> "number", k |-> "-0", n |-> 0]

JsArray(items) == [t |-> "array", items |-> items]

JsObject(fields) == [t |-> "object", fields |-> fields]

\* the typeof operator
typeof(v) == IF v.t \in {"null", "array", "object"} THEN "object" ELSE v.t

\* property read obj[name]; a property that is not there reads undefined
get(obj, name) ==
    IF obj.t = "object" /\ name \in DOMAIN obj.fields
    THEN obj.fields[name] ELSE JsUndefined

\* Number.isNaN
isNaN(v) == v.t = "number" /\ v.k = "NaN"

\* Array.isArray
isArray(v) == v.t = "array"

\* a === b on two numbers: NaN equals nothing, -0 equals 0
numberStrictEquals(a, b) ==
    /\ ~isNaN(a) /\ ~isNaN(b)
    /\ IF a.k = "Infinity" \/ b.k = "Infinity" THEN a.k = b.k
       ELSE a.n = b.n

(***************************************************************************)
(* JSON.  A JSON text is malformed or holds a document; a document is a    *)
(* value built of null, booleans, finite numbers, strings, arrays and      *)
(* objects.                                                                *)
(***************************************************************************)
MalformedJson == [k |-> "malformed"]

JsonText(doc) == [k |-> "json", doc |-> doc]

\* values that JSON.stringify leaves out of objects and nulls in arrays
unserializable(v) == v.t \in {"undefined", "symbol"}

RECURSIVE toJson(_)
\* the document JSON.stringify writes for a value
toJson(v) ==
    IF v.t = "number"
    THEN IF v.k = "finite" THEN v
         ELSE IF v.k = "-0" THEN JsNumber(0)
         ELSE JsNull
    ELSE IF v.t = "array"
    THEN JsArray([i \in DOMAIN v.items |->
                    IF unserializable(v.items[i]) THEN JsNull
                    ELSE toJson(v.items[i])])
    ELSE IF v.t = "object"
    THEN JsObject([name \in {x \in DOMAIN v.fields :
                                ~unserializable(v.fields[x])} |->
                     toJson(v.fields[name])])
    ELSE v

\* JSON.stringify
stringify(v) == JsonText(toJson(v))

(***************************************************************************)
(* Stroke serializer (Calligraphy/services/strokeSerializer.ts).  A call   *)
(* either returns a value or throws an error with a message.               *)
(***************************************************************************)
Returned(value) == [threw |-> FALSE, value |-> value]

Thrown(message) == [threw |-> TRUE, message |-> message]

isValidPoint(point) ==
    IF typeof(point) # "object" \/ point = JsNull THEN FALSE
    ELSE /\ typeof(get(point, "x")) = "number"
         /\ typeof(get(point, "y")) = "number"
         /\ typeof(get(point, "timestamp")) = "number"
         /\ ~isNaN(get(point, "x"))
         /\ ~isNaN(get(point, "y"))
         /\ ~isNaN(get(point, "timestamp"))

isValidStrokeData(stroke) ==
    IF typeof(stroke) # "object" \/ stroke = JsNull THEN FALSE
    ELSE IF typeof(get(stroke, "id")) # "string" THEN FALSE
    ELSE IF typeof(get(stroke, "startTime")) # "number"
            \/ isNaN(get(stroke, "startTime")) THEN FALSE
    ELSE IF typeof(get(stroke, "endTime")) # "number"
            \/ isNaN(get(stroke, "endTime")) THEN FALSE
    ELSE IF ~isArray(get(stroke, "points")) THEN FALSE
    ELSE IF \E i \in DOMAIN get(stroke, "points").items :
               ~isValidPoint(get(stroke, "points").items[i]) THEN FALSE
    ELSE IF get(stroke, "pressure") # JsUndefined
    THEN IF ~isArray(get(stroke, "pressure")) THEN FALSE
         ELSE \A i \in DOMAIN get(stroke, "pressure").items :
                 LET p == get(stroke, "pressure").items[i]
                 IN  ~(typeof(p) # "number" \/ isNaN(p))
    ELSE TRUE

serialize(strokes) == stringify(strokes)

RECURSIVE validateFrom(_, _)
\* the loop of deserialize from the 0-based index i on
validateFrom(parsed, i) ==
    IF ~(i < Len(parsed.items)) THEN Returned(parsed)
    ELSE IF ~isValidStrokeData(parsed.items[i + 1])
    THEN Thrown(<<"Invalid stroke data at index", i>>)
    ELSE validateFrom(parsed, i + 1)

\* mutant: the elements are examined from the last one down
deserialize_lastIndex(json) ==
    IF json.k = "malformed" THEN Thrown(<<"SyntaxError">>)
    ELSE IF ~isArray(json.doc)
    THEN Thrown(<<"Invalid stroke data: expected an array">>)
    ELSE LET bad == {i \in 0..(Len(json.doc.items) - 1) :
                        ~isValidStrokeData(json.doc.items[i + 1])}
         IN  IF bad = {} THEN Returned(json.doc)
             ELSE Thrown(<<"Invalid stroke data at index",
                           CHOOSE i \in bad : \A j \in bad : j <= i>>)

deserialize(json) ==
    IF json.k = "malformed" THEN Thrown(<<"SyntaxError">>)
    ELSE LET parsed == json.doc
         IN  IF ~isArray(parsed)
             THEN Thrown(<<"Invalid stroke data: expected an array">>)
             ELSE validateFrom(parsed, 0)

(***************************************************************************)
(* Resource validator (lib/validation.ts).  The input is a JavaScript      *)
(* value of unknown type; the word of an enumeration is a string of one    *)
(* token.                                                                  *)
(***************************************************************************)
CATEGORY_IDS == {JsString(<<c>>) : c \in CategoryId}

DIFFICULTY_LEVELS == {JsString(<<d>>) : d \in DifficultyLevel}

PRICE_TYPES == {JsString(<<p>>) : p \in PriceType}

PLATFORMS == {JsString(<<p>>) : p \in Platform}

REQUIRED_RESOURCE_FIELDS ==
    <<"id", "name", "description", "category", "subcategory", "tags",
      "difficulty", "priceType", "platforms", "url">>

stringFields == <<"id", "name", "description", "subcategory", "url">>

isNonEmptyString(value) ==
    typeof(value) = "string" /\ Len(trim(value.s)) > 0

isNonEmptyArray(value) == isArray(value) /\ Len(value.items) > 0

\* a < n and a > n for a number a and an integer literal n; every comparison
\* with NaN is false
lessThan(a, n) ==
    \/ a.k = "finite" /\ a.n < n
    \/ a.k = "-0" /\ 0 < n

greaterThan(a, n) ==
    \/ a.k = "finite" /\ a.n > n
    \/ a.k = "-0" /\ 0 > n
    \/ a.k = "Infinity"

\* Array.prototype.join throws a TypeError on an element that is a symbol
joinThrows(items) == \E i \in DOMAIN items : items[i].t = "symbol"

\* the entry pushed to missingFields for a field, if any
missing(absent, field) == IF absent THEN <<field>> ELSE <<>>

\* the entry pushed to invalidFields for a field, if any
invalid(bad, field, reason) ==
    IF bad THEN <<[field |-> field, reason |-> reason]>> ELSE <<>>

invalidTags(obj) ==
    SelectSeq(get(obj, "tags").items,
              LAMBDA tag : typeof(tag) # "string" \/ Len(trim(tag.s)) = 0)

invalidPlatforms(obj) ==
    SelectSeq(get(obj, "platforms").items,
              LAMBDA p : typeof(p) # "string" \/ p \notin PLATFORMS)

ratingInvalid(rating) ==
    typeof(rating) # "number" \/ lessThan(rating, 1) \/ greaterThan(rating, 5)

\* mutant: a value that is no word of the enumeration counts as missing
enumInvalid_never(value, words) == FALSE

enumInvalid(value, words) == isNonEmptyString(value) /\ value \notin words

\* mutant: only the absence of a property counts as missing
stringMissing_absent(value) == value = JsUndefined

stringMissing(value) == ~isNonEmptyString(value)

validateResource(resource) ==
    IF resource = JsNull \/ resource = JsUndefined
       \/ typeof(resource) # "object"
    THEN [threw |-> FALSE, success |-> FALSE,
          missingFields |-> REQUIRED_RESOURCE_FIELDS, invalidFields |-> <<>>]
    ELSE
    LET obj == resource
        platformsPresent == isNonEmptyArray(get(obj, "platforms"))
        missingFields ==
            SelectSeq(stringFields, LAMBDA f : stringMissing(get(obj, f)))
            \o missing(stringMissing(get(obj, "category")), "category")
            \o missing(stringMissing(get(obj, "difficulty")), "difficulty")
            \o missing(stringMissing(get(obj, "priceType")), "priceType")
            \o missing(~isNonEmptyArray(get(obj, "tags")), "tags")
            \o missing(~platformsPresent, "platforms")
        invalidFields ==
            invalid(enumInvalid(get(obj, "category"), CATEGORY_IDS),
                    "category", <<"Invalid category", get(obj, "category")>>)
            \o invalid(enumInvalid(get(obj, "difficulty"), DIFFICULTY_LEVELS),
                       "difficulty",
                       <<"Invalid difficulty", get(obj, "difficulty")>>)
            \o invalid(enumInvalid(get(obj, "priceType"), PRICE_TYPES),
                       "priceType",
                       <<"Invalid priceType", get(obj, "priceType")>>)
            \o invalid(isNonEmptyArray(get(obj, "tags"))
                         /\ Len(invalidTags(obj)) > 0,
                       "tags", <<"All tags must be non-empty strings">>)
            \o invalid(platformsPresent /\ Len(invalidPlatforms(obj)) > 0,
                       "platforms",
                       <<"Invalid platforms", invalidPlatforms(obj)>>)
            \o invalid(get(obj, "rating") # JsUndefined
                         /\ ratingInvalid(get(obj, "rating")),
                       "rating", <<"Rating must be a number between 1 and 5">>)
            \o invalid(get(obj, "featured") # JsUndefined
                         /\ typeof(get(obj, "featured")) # "boolean",
                       "featured", <<"Featured must be a boolean">>)
    IN  IF platformsPresent /\ Len(invalidPlatforms(obj)) > 0
           /\ joinThrows(invalidPlatforms(obj))
        THEN Thrown(<<"TypeError">>)
        ELSE [threw |-> FALSE,
              success |-> Len(missingFields) = 0 /\ Len(invalidFields) = 0,
              missingFields |-> missingFields,
              invalidFields |-> invalidFields]

(***************************************************************************)
(* Inputs of the filter specification.                                     *)
(***************************************************************************)
Ids == {"a", "b"}

PlatformLists == {<<"web">>, <<"web", "ios">>}

FilterRecords ==
    {Resource(id, <<"1">>, Undefined, <<"1">>, Undefined, "apps",
              "flashcards", <<<<"1">>>>, d, p, pl) :
        id \in Ids, d \in DifficultyLevel, p \in PriceType,
        pl \in PlatformLists}

DifficultySelectors ==
    {<<>>, <<"beginner">>, <<"advanced">>, <<"advanced", "beginner">>}

PriceSelectors == {<<>>, <<"free">>, <<"paid">>, <<"free", "paid">>}

PlatformSelectors == {<<>>, <<"web">>, <<"ios">>, <<"ios", "web">>}

SearchStrings == {<<>>, <<"s">>}

FilterInputs ==
    {ActiveFilters(d, p, pl, s) :
        d \in DifficultySelectors, p \in PriceSelectors,
        pl \in PlatformSelectors, s \in SearchStrings}

Init ==
    /\ resources \in {[ref |-> 0, items |-> s] :
                         s \in BoundedSeq(FilterRecords, MaxLen)}
    /\ activeFilters = createEmptyFilters
    /\ HookUnused
    /\ PageUnused
    /\ op = "init"
    /\ args = <<>>
    /\ result = <<>>

FilterByDifficulty ==
    /\ op = "init"
    /\ \E d \in DifficultySelectors :
           /\ op' = "filterByDifficulty"
           /\ args' = [difficulties |-> d]
           /\ result' = filterByDifficulty(resources, d)
           /\ UNCHANGED frame

FilterByPriceType ==
    /\ op = "init"
    /\ \E p \in PriceSelectors :
           /\ op' = "filterByPriceType"
           /\ args' = [priceTypes |-> p]
           /\ result' = filterByPriceType(resources, p)
           /\ UNCHANGED frame

FilterByPlatform ==
    /\ op = "init"
    /\ \E pl \in PlatformSelectors :
           /\ op' = "filterByPlatform"
           /\ args' = [platforms |-> pl]
           /\ result' = filterByPlatform(resources, pl)
           /\ UNCHANGED frame

CombineFilters ==
    /\ op = "init"
    /\ \E f \in FilterInputs :
           /\ op' = "combineFilters"
           /\ args' = [filters |-> f]
           /\ result' = combineFilters(resources, f)
           /\ UNCHANGED frame

\* the caller drops the returned value and is ready for its next call
Return ==
    /\ op # "init"
    /\ op' = "init"
    /\ args' = <<>>
    /\ result' = <<>>
    /\ UNCHANGED frame

Next ==
    \/ FilterByDifficulty
    \/ FilterByPriceType
    \/ FilterByPlatform
    \/ CombineFilters
    \/ Return

Spec == Init /\ [][Next]_vars

(***************************************************************************)
(* Category specification: the category and subcategory filters and the    *)
(* count aggregator over records that differ in category and subcategory.  *)
(***************************************************************************)
UnknownSubcategory == "no-such-subcategory"

CategoryRecords ==
    {Resource(id, <<"1">>, Undefined, <<"1">>, Undefined, c, sc,
              <<<<"1">>>>, "beginner", "free", <<"web">>) :
        id \in Ids, c \in CategoryId, sc \in SubcategoryId}

CategoryArgs == CategoryId \cup {UnknownCategory}

SubcategoryArgs == SubcategoryId \cup {UnknownSubcategory}

SubcategoryLists ==
    {<<Subcategory("flashcards", p)>> : p \in CategoryId}
    \cup {<<Subcategory("flashcards", p), Subcategory("dictionaries", q)>> :
              p \in CategoryId, q \in CategoryId}

Categories == {Category(c, sl) : c \in CategoryId, sl \in SubcategoryLists}

\* taxonomies of one category, or of two categories with different ids
CategoryArrays ==
    {<<k>> : k \in Categories}
    \cup {<<k1, k2>> : k1 \in {k \in Categories : k.id = "apps"},
                       k2 \in {k \in Categories : k.id = "websites"}}
    \cup {<<k2, k1>> : k1 \in {k \in Categories : k.id = "apps"},
                       k2 \in {k \in Categories : k.id = "websites"}}

\* a decorated taxonomy whose first category count has drifted
drifted(enriched) ==
    [enriched EXCEPT ![1].resourceCount = enriched[1].resourceCount + 1]

InitCategory ==
    /\ resources \in {[ref |-> 0, items |-> s] :
                         s \in BoundedSeq(CategoryRecords, MaxLen)}
    /\ activeFilters = createEmptyFilters
    /\ HookUnused
    /\ PageUnused
    /\ op = "init"
    /\ args = <<>>
    /\ result = <<>>

FilterByCategory ==
    /\ op = "init"
    /\ \E c \in CategoryArgs :
           /\ op' = "filterByCategory"
           /\ args' = [category |-> c]
           /\ result' = filterByCategory(resources, c)
           /\ UNCHANGED frame

FilterBySubcategory ==
    /\ op = "init"
    /\ \E sc \in SubcategoryArgs :
           /\ op' = "filterBySubcategory"
           /\ args' = [subcategory |-> sc]
           /\ result' = filterBySubcategory(resources, sc)
           /\ UNCHANGED frame

FilterByCategoryAndSubcategory ==
    /\ op = "init"
    /\ \E c \in CategoryArgs, sc \in SubcategoryArgs :
           /\ op' = "filterByCategoryAndSubcategory"
           /\ args' = [category |-> c, subcategory |-> sc]
           /\ result' = filterByCategoryAndSubcategory(resources, c, sc)
           /\ UNCHANGED frame

GetCategoryResourceCounts ==
    /\ op = "init"
    /\ op' = "getCategoryResourceCounts"
    /\ args' = <<>>
    /\ result' = getCategoryResourceCounts(resources)
    /\ UNCHANGED frame

GetSubcategoryResourceCounts ==
    /\ op = "init"
    /\ \E c \in CategoryArgs :
           /\ op' = "getSubcategoryResourceCounts"
           /\ args' = [category |-> c]
           /\ result' = getSubcategoryResourceCounts(resources, c)
           /\ UNCHANGED frame

GetResourceCountForCategory ==
    /\ op = "init"
    /\ \E c \in CategoryArgs :
           /\ op' = "getResourceCountForCategory"
           /\ args' = [category |-> c]
           /\ result' = getResourceCountForCategory(resources, c)
           /\ UNCHANGED frame

EnrichCategoriesWithCounts ==
    /\ op = "init"
    /\ \E C \in CategoryArrays :
           /\ op' = "enrichCategoriesWithCounts"
           /\ args' = [categories |-> C]
           /\ result' = enrichCategoriesWithCounts(C, resources)
           /\ UNCHANGED frame

ValidateCategoryCounts ==
    /\ op = "init"
    /\ \E C \in CategoryArrays, drift \in BOOLEAN :
           LET enriched == enrichCategoriesWithCounts(C, resources)
               E == IF drift THEN drifted(enriched) ELSE enriched
           IN  /\ op' = "validateCategoryCounts"
               /\ args' = [categories |-> E]
               /\ result' = validateCategoryCounts(E, resources)
               /\ UNCHANGED frame

NextCategory ==
    \/ EnrichCategoriesWithCounts
    \/ ValidateCategoryCounts
    \/ FilterByCategory
    \/ FilterBySubcategory
    \/ FilterByCategoryAndSubcategory
    \/ GetCategoryResourceCounts
    \/ GetSubcategoryResourceCounts
    \/ GetResourceCountForCategory
    \/ Return

SpecCategory == InitCategory /\ [][NextCategory]_vars

(***************************************************************************)
(* Search specification: the search matcher over records that hold a text  *)
(* in one of the five searched places and a filler text elsewhere.         *)
(***************************************************************************)
Filler == <<"1">>

FieldTexts == {<<"S", "s">>, <<"sz">>}

SearchRecord(id, name, nameJa, description, descriptionLong, tags) ==
    Resource(id, name, nameJa, description, descriptionLong, "apps",
             "flashcards", tags, "beginner", "free", <<"web">>)

SearchRecords ==
    {SearchRecord("a", t, Undefined, Filler, Undefined, <<Filler>>) :
        t \in FieldTexts}
    \cup {SearchRecord("b", Filler, t, Filler, Undefined, <<Filler>>) :
        t \in FieldTexts \cup {<<>>}}
    \cup {SearchRecord("a", Filler, Undefined, t, Undefined, <<Filler>>) :
        t \in FieldTexts}
    \cup {SearchRecord("b", Filler, Undefined, Filler, t, <<Filler>>) :
        t \in FieldTexts}
    \cup {SearchRecord("c", Filler, Undefined, Filler, Undefined,
                       <<Filler, t>>) :
        t \in FieldTexts}

\* queries are typed in letters and spaces
QueryChars == Chars \ {"1"}

Queries == BoundedSeq(QueryChars, MaxQuery)

InitSearch ==
    /\ resources \in {[ref |-> 0, items |-> s] :
                         s \in BoundedSeq(SearchRecords, MaxLen)}
    /\ activeFilters = createEmptyFilters
    /\ HookUnused
    /\ PageUnused
    /\ op = "init"
    /\ args = <<>>
    /\ result = <<>>

SearchResources ==
    /\ op = "init"
    /\ \E q \in Queries :
           /\ op' = "searchResources"
           /\ args' = [query |-> q]
           /\ result' = searchResources(resources, q)
           /\ UNCHANGED frame

ResourceMatchesQuery ==
    /\ op = "init"
    /\ \E q \in Queries, i \in DOMAIN resources.items :
           /\ op' = "resourceMatchesQuery"
           /\ args' = [resource |-> resources.items[i], query |-> q]
           /\ result' = resourceMatchesQuery(resources.items[i], q)
           /\ UNCHANGED frame

NextSearch ==
    \/ SearchResources
    \/ ResourceMatchesQuery
    \/ Return

SpecSearch == InitSearch /\ [][NextSearch]_vars

(***************************************************************************)
(* Stroke specification: arrays of strokes are serialized and the text is  *)
(* read back; texts that no serialize call wrote are read as well.  Every  *)
(* stroke is BaseStroke with one part replaced.                            *)
(***************************************************************************)
Point(x, y, timestamp) ==
    JsObject([x |-> x, y |-> y, timestamp |-> timestamp])

StrokeData(id, startTime, endTime, points, pressure) ==
    JsObject([id |-> id, startTime |-> startTime, endTime |-> endTime,
              points |-> points, pressure |-> pressure])

BasePoint == Point(JsNumber(1), JsNumber(2), JsNumber(3))

BaseStroke ==
    StrokeData(JsString(<<"s">>), JsNumber(1), JsNumber(2),
               JsArray(<<BasePoint>>), JsUndefined)

\* values found where a number is expected
NumberCandidates ==
    {JsNegZero, JsInfinity, JsNaN, JsString(<<"1">>), JsUndefined}

StrokeWith(field, v) ==
    JsObject([BaseStroke.fields EXCEPT ![field] = v])

PointWith(field, v) ==
    StrokeWith("points",
               JsArray(<<JsObject([BasePoint.fields EXCEPT ![field] = v])>>))

Strokes ==
    {BaseStroke, JsNull, JsString(<<"s">>)}
    \cup {StrokeWith("id", v) : v \in {JsNumber(1), JsUndefined}}
    \cup {StrokeWith(f, v) :
            f \in {"startTime", "endTime"}, v \in NumberCandidates}
    \cup {PointWith(f, v) :
            f \in {"x", "y", "timestamp"}, v \in NumberCandidates}
    \cup {StrokeWith("points", v) :
            v \in {JsArray(<<>>), JsNull, JsArray(<<JsNull>>),
                   JsArray(<<BasePoint, BasePoint>>)}}
    \cup {StrokeWith("pressure", v) :
            v \in {JsNull, JsString(<<"1">>), JsArray(<<>>)}
                  \cup {JsArray(<<JsNumber(1), n>>) :
                          n \in NumberCandidates \cup {JsNumber(2)}}}

StrokeArrays == BoundedSeq(Strokes, MaxStrokes)

\* texts that are no serialized stroke array
OtherTexts ==
    {MalformedJson}
    \cup {JsonText(doc) :
            doc \in {JsNull, JsNumber(1), JsString(<<"s">>), JsBoolean(TRUE),
                     JsObject(<<>>), toJson(BaseStroke)}}

InitStroke ==
    /\ resources = [ref |-> 0, items |-> <<>>]
    /\ activeFilters = createEmptyFilters
    /\ HookUnused
    /\ PageUnused
    /\ op = "init"
    /\ args = <<>>
    /\ result = <<>>

Serialize ==
    /\ op = "init"
    /\ \E S \in StrokeArrays :
           /\ op' = "serialize"
           /\ args' = [strokes |-> JsArray(S)]
           /\ result' = serialize(JsArray(S))
           /\ UNCHANGED frame

\* the text a serialize call returned is read back
DeserializeSerialized ==
    /\ op = "serialize"
    /\ op' = "deserialize"
    /\ args' = [json |-> result, strokes |-> args.strokes]
    /\ result' = deserialize(result)
    /\ UNCHANGED frame

Deserialize ==
    /\ op = "init"
    /\ \E json \in OtherTexts :
           /\ op' = "deserialize"
           /\ args' = [json |-> json]
           /\ result' = deserialize(json)
           /\ UNCHANGED frame

NextStroke ==
    \/ Serialize
    \/ DeserializeSerialized
    \/ Deserialize
    \/ Return

SpecStroke == InitStroke /\ [][NextStroke]_vars

(***************************************************************************)
(* Validation specification: the validator is called on values that are    *)
(* no objects, on a valid record with any set of required fields removed,  *)
(* and on a valid record with up to MaxChanged properties replaced.        *)
(***************************************************************************)
FieldNames == Range(REQUIRED_RESOURCE_FIELDS) \cup {"rating", "featured"}

ValidRecord ==
    JsObject([id |-> JsString(<<"a">>), name |-> JsString(<<"s">>),
              description |-> JsString(<<"s", "sp", "s">>),
              category |-> JsString(<<"apps">>),
              subcategory |-> JsString(<<"flashcards">>),
              tags |-> JsArray(<<JsString(<<"s">>)>>),
              difficulty |-> JsString(<<"beginner">>),
              priceType |-> JsString(<<"free">>),
              platforms |-> JsArray(<<JsString(<<"web">>)>>),
              url |-> JsString(<<"s">>),
              rating |-> JsUndefined, featured |-> JsUndefined])

\* values of any type that a property may hold
CommonCandidates ==
    {JsUndefined, JsNull, JsString(<<>>), JsString(<<"sp">>),
     JsString(<<"s">>), JsNumber(3), JsArray(<<>>), JsBoolean(TRUE), JsSymbol}

\* entries of a tags or platforms array
EntryCandidates ==
    {JsString(<<"ios">>), JsString(<<"s">>), JsString(<<>>),
     JsString(<<"sp">>), JsNumber(3), JsNull, JsSymbol}

Candidates(field) ==
    CommonCandidates \cup
    CASE field = "category" ->
            {JsString(<<"websites">>), JsString(<<"sp", "apps">>)}
      [] field = "difficulty" -> {JsString(<<"advanced">>)}
      [] field = "priceType" -> {JsString(<<"paid">>)}
      [] field = "tags" ->
            {JsArray(<<JsString(<<"s">>), e>>) : e \in EntryCandidates}
      [] field = "platforms" ->
            {JsArray(<<e>>) : e \in EntryCandidates}
            \cup {JsArray(<<JsString(<<"web">>), e>>) : e \in EntryCandidates}
      [] field = "rating" ->
            {JsNumber(0), JsNumber(1), JsNumber(5), JsNumber(6), JsNaN,
             JsInfinity, JsNegZero}
      [] field = "featured" -> {JsBoolean(FALSE)}
      [] OTHER -> {}

RECURSIVE Changed(_)
\* ValidRecord with at most k properties replaced
Changed(k) ==
    IF k = 0 THEN {ValidRecord}
    ELSE Changed(k - 1) \cup
         {JsObject([o.fields EXCEPT ![f] = v]) :
             o \in Changed(k - 1), <<f, v>> \in
                 UNION {{f1} \X Candidates(f1) : f1 \in FieldNames}}

\* ValidRecord without the required fields outside the set kept
Removed ==
    {JsObject([f \in kept \cup {"rating", "featured"} |->
                  ValidRecord.fields[f]]) :
        kept \in SUBSET Range(REQUIRED_RESOURCE_FIELDS)}

NonObjects ==
    {JsNull, JsUndefined, JsNumber(3), JsString(<<"s">>), JsBoolean(TRUE),
     JsSymbol, JsArray(<<>>)}

ValidatorInputs == NonObjects \cup Removed \cup Changed(MaxChanged)

InitValidate ==
    /\ resources = [ref |-> 0, items |-> <<>>]
    /\ activeFilters = createEmptyFilters
    /\ HookUnused
    /\ PageUnused
    /\ op = "init"
    /\ args = <<>>
    /\ result = <<>>

ValidateResource ==
    /\ op = "init"
    /\ \E resource \in ValidatorInputs :
           /\ op' = "validateResource"
           /\ args' = [resource |-> resource]
           /\ result' = validateResource(resource)
           /\ UNCHANGED frame

NextValidate ==
    \/ ValidateResource
    \/ Return

SpecValidate == InitValidate /\ [][NextValidate]_vars

(***************************************************************************)
(* Page specification: every query operation is called on the record array *)
(* of the page with the ActiveFilters object the page holds.               *)
(***************************************************************************)
PageRecords ==
    {Resource("a", <<"S", "s">>, Undefined, Filler, Undefined, "apps",
              "flashcards", <<Filler>>, "beginner", "free", <<"web">>),
     Resource("b", Filler, <<"sz">>, Filler, Undefined, "websites",
              "dictionaries", <<Filler, <<"s">>>>, "advanced", "paid",
              <<"web", "ios">>),
     Resource("c", Filler, Undefined, <<"s", "sp", "s">>, <<"S">>, "apps",
              "dictionaries", <<Filler>>, "beginner", "paid", <<"ios">>)}

PageFilters ==
    {ActiveFilters(d, p, pl, s) :
        d \in {<<>>, <<"beginner">>}, p \in {<<>>, <<"paid">>},
        pl \in {<<>>, <<"ios">>},
        s \in {<<>>, <<"sp">>, <<"s">>, <<"sz">>}}

InitPage ==
    /\ resources \in {[ref |-> 0, items |-> s] :
                         s \in BoundedSeq(PageRecords, MaxLen)}
    /\ activeFilters \in PageFilters
    /\ HookUnused
    /\ PageUnused
    /\ op = "init"
    /\ args = <<>>
    /\ result = <<>>

\* the page calls combineFilters with the filters it holds
CombineActiveFilters ==
    /\ op = "init"
    /\ op' = "combineFilters"
    /\ args' = [filters |-> activeFilters]
    /\ result' = combineFilters(resources, activeFilters)
    /\ UNCHANGED frame

\* mutant: the memo narrows the page's array in place
FilteredResources_inPlace ==
    /\ op = "init"
    /\ op' = "filteredResources"
    /\ args' = <<>>
    /\ result' = filteredResources(resources, activeFilters)
    /\ resources' = [resources EXCEPT
                        !.items = filteredResources(resources, activeFilters).items]
    /\ UNCHANGED <<activeFilters, hookVars, pageVars>>

FilteredResources ==
    /\ op = "init"
    /\ op' = "filteredResources"
    /\ args' = <<>>
    /\ result' = filteredResources(resources, activeFilters)
    /\ UNCHANGED frame

GetSearchMatchLocations ==
    /\ op = "init"
    /\ \E q \in Queries, i \in DOMAIN resources.items :
           /\ op' = "getSearchMatchLocations"
           /\ args' = [resource |-> resources.items[i], query |-> q]
           /\ result' = getSearchMatchLocations(resources.items[i], q)
           /\ UNCHANGED frame

NextPage ==
    \/ FilterByCategory
    \/ FilterBySubcategory
    \/ FilterByCategoryAndSubcategory
    \/ FilterByDifficulty
    \/ FilterByPriceType
    \/ FilterByPlatform
    \/ CombineActiveFilters
    \/ FilteredResources
    \/ SearchResources
    \/ ResourceMatchesQuery
    \/ GetSearchMatchLocations
    \/ Return

SpecPage == InitPage /\ [][NextPage]_vars

(***************************************************************************)
(* Hook specification: a component that uses useSearch handles setQuery    *)
(* and clearSearch calls, the clock ticks and due timeouts run.  op holds  *)
(* the event handled last.                                                 *)
(***************************************************************************)
HookQueries == {<<>>, <<"s">>, <<"S", "s">>}

\* the state after the first render and its effect
InitHook ==
    /\ resources \in {[ref |-> 0, items |-> s] :
                         s \in BoundedSeq(PageRecords, MaxLen)}
    /\ activeFilters = createEmptyFilters
    /\ op = "init"
    /\ args = <<>>
    /\ result = <<>>
    /\ hookQuery = <<>>
    /\ debouncedQuery = <<>>
    /\ timers = setTimeout(<<>>, <<>>)
    /\ effectTimer = freeId(<<>>)
    /\ rendered = useSearch(resources, <<>>, <<>>)
    /\ PageUnused

\* the effect of a render in which query changed: the cleanup of the
\* previous effect, then a new timeout that captures the query
RunEffect(q) ==
    /\ timers' = setTimeout(clearTimeout(timers, effectTimer), q)
    /\ effectTimer' = freeId(clearTimeout(timers, effectTimer))

\* mutant: the effect returns no cleanup
SetQuery_noCleanup ==
    \E q \in HookQueries :
        /\ q # hookQuery => TimerIds \ DOMAIN timers # {}
        /\ op' = "setQuery"
        /\ args' = [query |-> q]
        /\ hookQuery' = q
        /\ IF q # hookQuery
           THEN /\ timers' = setTimeout(timers, q)
                /\ effectTimer' = freeId(timers)
           ELSE UNCHANGED <<timers, effectTimer>>
        /\ rendered' = useSearch(resources, q, debouncedQuery)
        /\ UNCHANGED <<pageVars, resources, activeFilters, result, debouncedQuery>>

SetQuery ==
    \E q \in HookQueries :
        /\ op' = "setQuery"
        /\ args' = [query |-> q]
        /\ hookQuery' = q
        /\ IF q # hookQuery
           THEN RunEffect(q)
           ELSE UNCHANGED <<timers, effectTimer>>
        /\ rendered' = useSearch(resources, q, debouncedQuery)
        /\ UNCHANGED <<pageVars, resources, activeFilters, result, debouncedQuery>>

ClearSearch ==
    /\ op' = "clearSearch"
    /\ args' = <<>>
    /\ hookQuery' = <<>>
    /\ debouncedQuery' = <<>>
    /\ IF hookQuery # <<>>
       THEN RunEffect(<<>>)
       ELSE UNCHANGED <<timers, effectTimer>>
    /\ rendered' = useSearch(resources, <<>>, <<>>)
    /\ UNCHANGED <<pageVars, resources, activeFilters, result>>

\* mutant: the callback sets the state and no render follows
TimerFires_noRender ==
    \E id \in DOMAIN timers :
        /\ timers[id].remaining = 0
        /\ op' = "timeout"
        /\ args' = <<>>
        /\ debouncedQuery' = timers[id].query
        /\ timers' = clearTimeout(timers, id)
        /\ UNCHANGED <<pageVars, resources, activeFilters, result, hookQuery,
                       effectTimer, rendered>>

\* a due timeout runs its callback: setDebouncedQuery(query)
TimerFires ==
    \E id \in DOMAIN timers :
        /\ timers[id].remaining = 0
        /\ op' = "timeout"
        /\ args' = <<>>
        /\ debouncedQuery' = timers[id].query
        /\ timers' = clearTimeout(timers, id)
        /\ rendered' = useSearch(resources, hookQuery, timers[id].query)
        /\ UNCHANGED <<pageVars, resources, activeFilters, result, hookQuery,
                       effectTimer>>

\* a tick of the clock; a due timeout runs before the clock goes on
Tick ==
    /\ DOMAIN timers # {}
    /\ \A id \in DOMAIN timers : timers[id].remaining > 0
    /\ timers' = [id \in DOMAIN timers |->
                     [timers[id] EXCEPT !.remaining = @ - 1]]
    /\ UNCHANGED <<pageVars, resources, activeFilters, callVars, hookQuery,
                   debouncedQuery, effectTimer, rendered>>

NextHook ==
    \/ SetQuery
    \/ ClearSearch
    \/ TimerFires
    \/ Tick

\* the clock goes on and the event loop runs every due timeout
SpecHook ==
    /\ InitHook
    /\ [][NextHook]_vars
    /\ WF_vars(Tick)
    /\ WF_vars(TimerFires)

(***************************************************************************)
(* Panel specification: the events of the SearchBar and of the FilterPanel *)
(* of ResourcesPageClient.  The handlers of the panel read the filters     *)
(* prop of the last render of the panel; RenderPanel is the render that    *)
(* follows a change of the page's filters state.                           *)
(***************************************************************************)
SearchTexts == {<<>>, <<"s">>}

InitPanel ==
    /\ resources = [ref |-> 0, items |-> <<>>]
    /\ activeFilters = createEmptyFilters
    /\ HookUnused
    /\ PageUnused
    /\ op = "init"
    /\ args = <<>>
    /\ result = <<>>

\* the state an event of the panel leaves alone
panelFrame == <<resources, result, hookVars, selectedResource, isModalOpen,
                dataVars, gridVars>>

RenderPanel ==
    /\ panelFilters # activeFilters
    /\ panelFilters' = activeFilters
    /\ UNCHANGED <<activeFilters, callVars, panelFrame>>

HandleDifficultyChange ==
    \E value \in DifficultyLevel :
        LET difficulty == handleToggle(panelFilters.difficulty, value)
        IN  /\ op' = "handleDifficultyChange"
            /\ args' = [difficulty |-> difficulty]
            /\ activeFilters' =
                   handleFilterChange(activeFilters,
                       handleDifficultyChange(panelFilters, difficulty))
            /\ UNCHANGED <<panelFilters, panelFrame>>

HandlePriceChange ==
    \E value \in PriceType :
        LET priceType == handleToggle(panelFilters.priceType, value)
        IN  /\ op' = "handlePriceChange"
            /\ args' = [priceType |-> priceType]
            /\ activeFilters' =
                   handleFilterChange(activeFilters,
                       handlePriceChange(panelFilters, priceType))
            /\ UNCHANGED <<panelFilters, panelFrame>>

HandlePlatformChange ==
    \E value \in Platform :
        LET platforms == handleToggle(panelFilters.platforms, value)
        IN  /\ op' = "handlePlatformChange"
            /\ args' = [platforms |-> platforms]
            /\ activeFilters' =
                   handleFilterChange(activeFilters,
                       handlePlatformChange(panelFilters, platforms))
            /\ UNCHANGED <<panelFilters, panelFrame>>

\* a tag of the panel is removed, or the handler is called for "search"
HandleRemoveFilter ==
    \E filterType \in FilterKeys :
        \E value \in IF filterType = "search"
                     THEN SearchTexts
                     ELSE Range(panelFilters[filterType]) :
            /\ op' = "handleRemoveFilter"
            /\ args' = [filterType |-> filterType, value |-> value]
            /\ IF filterType = "search"
               THEN UNCHANGED activeFilters
               ELSE activeFilters' =
                        handleFilterChange(activeFilters,
                            handleRemoveFilter(panelFilters, filterType,
                                               value))
            /\ UNCHANGED <<panelFilters, panelFrame>>

\* 'Clear all' is rendered when the panel shows a selection
HandleClearAll ==
    /\ \/ Len(panelFilters.difficulty) > 0
       \/ Len(panelFilters.priceType) > 0
       \/ Len(panelFilters.platforms) > 0
    /\ op' = "handleClearAll"
    /\ args' = <<>>
    /\ activeFilters' =
           handleFilterChange(activeFilters, handleClearAll(panelFilters))
    /\ UNCHANGED <<panelFilters, panelFrame>>

HandleSearchChange ==
    \E search \in SearchTexts :
        /\ op' = "handleSearchChange"
        /\ args' = [search |-> search]
        /\ activeFilters' = handleSearchChange(activeFilters, search)
        /\ UNCHANGED <<panelFilters, panelFrame>>

NextPanel ==
    \/ RenderPanel
    \/ HandleDifficultyChange
    \/ HandlePriceChange
    \/ HandlePlatformChange
    \/ HandleRemoveFilter
    \/ HandleClearAll
    \/ HandleSearchChange

SpecPanel == InitPanel /\ [][NextPanel]_vars

(***************************************************************************)
(* Modal specification: resource selections and modal closes of            *)
(* ResourcesPageClient.  The page shows a contiguous part of a catalogue   *)
(* of eight records with unique ids, two categories and three tags.        *)
(***************************************************************************)
\* the longest record array of the page
MaxCards == 7

Card(id, category, tags) ==
    Resource(id, Filler, Undefined, Filler, Undefined, category,
             "flashcards", tags, "beginner", "free", <<"web">>)

Catalogue ==
    <<Card("a", "apps", <<<<"s">>>>),
      Card("b", "apps", <<<<"S">>>>),
      Card("c", "websites", <<<<"s">>>>),
      Card("d", "websites", <<<<"sz">>>>),
      Card("e", "apps", <<<<"S">>, <<"s">>>>),
      Card("f", "apps", <<<<"sz">>>>),
      Card("g", "apps", <<>>),
      Card("h", "websites", <<<<"S">>>>)>>

CardArrays ==
    {[ref |-> 0, items |-> SubSeq(Catalogue, part[1], part[2])] :
        part \in {p \in (1..Len(Catalogue)) \X (0..Len(Catalogue)) :
                     p[2] >= p[1] - 1 /\ p[2] - p[1] < MaxCards}}

InitModal ==
    /\ resources \in CardArrays
    /\ activeFilters = createEmptyFilters
    /\ HookUnused
    /\ PageUnused
    /\ op = "init"
    /\ args = <<>>
    /\ result = <<>>

\* the state a selection or a close leaves alone
modalFrame == <<resources, activeFilters, result, hookVars, panelFilters,
                dataVars, gridVars>>

\* a card of the grid is selected
HandleResourceSelect ==
    \E resource \in Range(filteredResources(resources, activeFilters).items) :
        /\ op' = "handleResourceSelect"
        /\ args' = [resource |-> resource]
        /\ selectedResource' = resource
        /\ isModalOpen' = TRUE
        /\ UNCHANGED modalFrame

\* a card of the related list inside the open modal is selected
HandleRelatedSelect ==
    /\ isModalOpen
    /\ selectedResource # Null
    /\ \E resource \in
            Range(slice(relatedResources(resources, selectedResource),
                        4).items) :
           /\ op' = "handleResourceSelect"
           /\ args' = [resource |-> resource]
           /\ selectedResource' = resource
           /\ isModalOpen' = TRUE
           /\ UNCHANGED modalFrame

\* the dialog asks to close
HandleModalClose ==
    /\ isModalOpen
    /\ op' = "handleModalClose"
    /\ args' = <<>>
    /\ isModalOpen' = FALSE
    /\ selectedResource' = Null
    /\ UNCHANGED modalFrame

NextModal ==
    \/ HandleResourceSelect
    \/ HandleRelatedSelect
    \/ HandleModalClose

SpecModal == InitModal /\ [][NextModal]_vars

(***************************************************************************)
(* Data specification: calls of the data module.  Each data file holds     *)
(* records of its own category; the cache is filled by the first call of   *)
(* getAllResources and kept from call to call.                             *)
(***************************************************************************)
DataFiles ==
    {[ref |-> 0, items |-> s] : s \in BoundedSeq(PageRecords, MaxLen)}

CategoryIdArgs == CategoryId \cup {UnknownCategory} \cup InheritedKeys

InitData ==
    /\ resources = [ref |-> 0, items |-> <<>>]
    /\ activeFilters = createEmptyFilters
    /\ HookUnused
    /\ panelFilters = createEmptyFilters
    /\ selectedResource = Null
    /\ isModalOpen = FALSE
    /\ resourcesByCategory \in
          {byCategory \in [Range(CategoryKeys) -> DataFiles] :
              \A key \in Range(CategoryKeys) :
                  \A i \in DOMAIN byCategory[key].items :
                      byCategory[key].items[i].category = key}
    /\ allResourcesCache = Null
    /\ itemCount = 0
    /\ columns = 1
    /\ focusedIndex = 0
    /\ op = "init"
    /\ args = <<>>
    /\ result = <<>>

\* the state a call of the data module leaves alone, the cache apart
dataFrame == <<resources, activeFilters, hookVars, clientVars,
               resourcesByCategory, gridVars>>

GetAllResources ==
    /\ op = "init"
    /\ op' = "getAllResources"
    /\ args' = <<>>
    /\ allResourcesCache' =
           getAllResources(resourcesByCategory, allResourcesCache)
    /\ result' = allResourcesCache'
    /\ UNCHANGED dataFrame

GetResourcesByCategory ==
    /\ op = "init"
    /\ \E categoryId \in CategoryIdArgs :
           /\ op' = "getResourcesByCategory"
           /\ args' = [categoryId |-> categoryId]
           /\ result' = getResourcesByCategory(resourcesByCategory,
                                                categoryId)
           /\ UNCHANGED <<allResourcesCache, dataFrame>>

GetTotalResourceCount ==
    /\ op = "init"
    /\ op' = "getTotalResourceCount"
    /\ args' = <<>>
    /\ allResourcesCache' =
           getAllResources(resourcesByCategory, allResourcesCache)
    /\ result' = getTotalResourceCount(resourcesByCategory,
                                        allResourcesCache)
    /\ UNCHANGED dataFrame

GetCategoryResourceCount ==
    /\ op = "init"
    /\ \E categoryId \in CategoryIdArgs :
           /\ op' = "getCategoryResourceCount"
           /\ args' = [categoryId |-> categoryId]
           /\ result' = getCategoryResourceCount(resourcesByCategory,
                                                  categoryId)
           /\ UNCHANGED <<allResourcesCache, dataFrame>>

NextData ==
    \/ GetAllResources
    \/ GetResourcesByCategory
    \/ GetTotalResourceCount
    \/ GetCategoryResourceCount
    \/ Return

SpecData == InitData /\ [][NextData]_vars

(***************************************************************************)
(* Grid specification: key presses on the focused card of a rendered       *)
(* ResourceGrid, and changes of the number of columns of its layout.       *)
(***************************************************************************)
\* the most cards of a grid
MaxItems == 6

\* the most columns of the layout
MaxColumns == 4

Keys == NavigationKeys \cup {"Enter", "Tab"}

InitGrid ==
    /\ resources = [ref |-> 0, items |-> <<>>]
    /\ activeFilters = createEmptyFilters
    /\ HookUnused
    /\ panelFilters = createEmptyFilters
    /\ selectedResource = Null
    /\ isModalOpen = FALSE
    /\ resourcesByCategory = <<>>
    /\ allResourcesCache = Null
    /\ itemCount \in 1..MaxItems
    /\ columns \in 1..MaxColumns
    /\ focusedIndex \in 0..(itemCount - 1)
    /\ op = "init"
    /\ args = <<>>
    /\ result = <<>>

\* the state a key press leaves alone
gridFrame == <<resources, activeFilters, result, hookVars, clientVars,
               dataVars, itemCount>>

\* a key is pressed on the card that has the focus
HandleKeyDown ==
    \E key \in Keys :
        /\ op' = "handleKeyDown"
        /\ args' = [key |-> key, currentIndex |-> focusedIndex]
        /\ focusedIndex' =
               handleKeyDown(key, focusedIndex, itemCount, columns)
        /\ UNCHANGED <<columns, gridFrame>>

\* the responsive layout changes the number of columns
Resize ==
    \E cols \in 1..MaxColumns :
        /\ cols # columns
        /\ op' = "resize"
        /\ args' = [columns |-> cols]
        /\ columns' = cols
        /\ UNCHANGED <<focusedIndex, gridFrame>>

NextGrid ==
    \/ HandleKeyDown
    \/ Resize

SpecGrid == InitGrid /\ [][NextGrid]_vars

(***************************************************************************)
(* Properties of the filter combinator.                                    *)
(***************************************************************************)
ids(items) == {items[i].id : i \in DOMAIN items}

\* C1: combineFilters(R, f) holds exactly the records of R that satisfy every
\* non-empty dimension of f (difficulty, priceType, at least one platform),
\* and so is a subset of each single-dimension filter's result.
C1_CombineExact ==
    op = "combineFilters" =>
        LET f == args.filters
            ok(r) ==
                /\ (f.difficulty = <<>> \/ r.difficulty \in Range(f.difficulty))
                /\ (f.priceType = <<>> \/ r.priceType \in Range(f.priceType))
                /\ (f.platforms = <<>>
                        \/ Range(r.platforms) \cap Range(f.platforms) # {})
        IN  /\ result.items = SelectSeq(resources.items, ok)
            /\ Range(result.items) \subseteq
                   Range(filterByDifficulty(resources, f.difficulty).items)
            /\ Range(result.items) \subseteq
                   Range(filterByPriceType(resources, f.priceType).items)
            /\ Range(result.items) \subseteq
                   Range(filterByPlatform(resources, f.platforms).items)

C1_Witness ==
    /\ op = "combineFilters"
    /\ Len(args.filters.difficulty) = 1
    /\ Len(args.filters.priceType) = 1
    /\ Len(args.filters.platforms) = 1
    /\ Len(resources.items) = MaxLen
    /\ Len(result.items) = 1
    /\ \E i \in DOMAIN resources.items :
           Len(resources.items[i].platforms) = 2

\* C2: applying filterByDifficulty, filterByPriceType and filterByPlatform to
\* R in any of the six orders gives the same id set and the same number of
\* records as combineFilters(R, f).
C2_OrderIndependent ==
    op = "combineFilters" =>
        LET f == args.filters
            D(x) == filterByDifficulty(x, f.difficulty)
            P(x) == filterByPriceType(x, f.priceType)
            L(x) == filterByPlatform(x, f.platforms)
            orders == {L(P(D(resources))), P(L(D(resources))),
                       L(D(P(resources))), D(L(P(resources))),
                       P(D(L(resources))), D(P(L(resources)))}
        IN  \A o \in {x.items : x \in orders} :
                /\ ids(o) = ids(result.items)
                /\ Len(o) = Len(result.items)

C2_Witness ==
    /\ op = "combineFilters"
    /\ Len(args.filters.difficulty) = 2
    /\ Len(args.filters.priceType) = 1
    /\ Len(args.filters.platforms) = 1
    /\ Len(resources.items) = MaxLen
    /\ Len(result.items) = 1
    /\ Cardinality(ids(resources.items)) = 2

\* C3: with an empty selector filterByDifficulty, filterByPriceType and
\* filterByPlatform return all records of R in order, and so does
\* combineFilters when all three selectors are empty.
C3_EmptySelectorPassthrough ==
    /\ (op = "filterByDifficulty" /\ args.difficulties = <<>>)
          => result.items = resources.items
    /\ (op = "filterByPriceType" /\ args.priceTypes = <<>>)
          => result.items = resources.items
    /\ (op = "filterByPlatform" /\ args.platforms = <<>>)
          => result.items = resources.items
    /\ (op = "combineFilters" /\ args.filters.difficulty = <<>>
           /\ args.filters.priceType = <<>> /\ args.filters.platforms = <<>>)
          => result.items = resources.items

C3_Witness ==
    /\ op = "filterByDifficulty"
    /\ args.difficulties = <<>>
    /\ Len(resources.items) = MaxLen
    /\ Len(result.items) = MaxLen

\* the pairs of non-empty selections that together select the given values
splits(selectors, selected) ==
    {<<A, B>> \in (selectors \ {<<>>}) \X (selectors \ {<<>>}) :
        Range(A) \cup Range(B) = Range(selected)}

\* C21: within one dimension the selected values combine with OR: the ids a
\* filter returns for the union of two non-empty selections are the ids it
\* returns for the one together with the ids it returns for the other.
C21_OrWithinDimension ==
    /\ (op = "filterByDifficulty" /\ Len(args.difficulties) > 0) =>
          \A pair \in splits(DifficultySelectors, args.difficulties) :
              ids(result.items)
                = ids(filterByDifficulty(resources, pair[1]).items)
                  \cup ids(filterByDifficulty(resources, pair[2]).items)
    /\ (op = "filterByPriceType" /\ Len(args.priceTypes) > 0) =>
          \A pair \in splits(PriceSelectors, args.priceTypes) :
              ids(result.items)
                = ids(filterByPriceType(resources, pair[1]).items)
                  \cup ids(filterByPriceType(resources, pair[2]).items)
    /\ (op = "filterByPlatform" /\ Len(args.platforms) > 0) =>
          \A pair \in splits(PlatformSelectors, args.platforms) :
              ids(result.items)
                = ids(filterByPlatform(resources, pair[1]).items)
                  \cup ids(filterByPlatform(resources, pair[2]).items)

\* two platforms are selected and the result holds a record that the one
\* selection alone returns and a record that only the other returns
C21_Witness ==
    /\ op = "filterByPlatform"
    /\ Len(args.platforms) = 2
    /\ Len(result.items) = 2
    /\ ids(filterByPlatform(resources, <<"ios">>).items)
         # ids(result.items)
    /\ ids(filterByPlatform(resources, <<"ios">>).items) # {}

\* C18: the array a filter or the combinator returns is a different array
\* object from its input array, for every selector.
C18_FreshArray ==
    op \in {"filterByDifficulty", "filterByPriceType", "filterByPlatform",
            "combineFilters"}
        => result.ref # resources.ref

\* C20: the result of combineFilters holds the same records in the same
\* order whatever search string the filters carry.
C20_SearchIgnored ==
    op = "combineFilters" =>
        \A s \in SearchStrings :
            combineFilters(resources, [args.filters EXCEPT !.search = s]).items
                = result.items

\* combineFilters is called with a search string that matches no record and
\* returns records all the same
C20_Witness ==
    /\ op = "combineFilters"
    /\ Len(args.filters.search) > 0
    /\ Len(args.filters.difficulty) > 0
    /\ \A i \in DOMAIN resources.items :
          ~resourceMatchesQuery(resources.items[i], args.filters.search)
    /\ Len(result.items) > 0
    /\ Len(result.items) < Len(resources.items)

(***************************************************************************)
(* Properties of the category filters and of the counts.                   *)
(***************************************************************************)
\* number of positions of items that hold the value v
occurrences(items, v) == Cardinality({i \in DOMAIN items : items[i] = v})

\* C4: filterByCategory(R, c) returns exactly the records of R whose category
\* is c, each as it is in R, also for a c that is no category id; with no
\* matching record the result is the empty array.
C4_FilterByCategoryExact ==
    op = "filterByCategory" =>
        LET c == args.category
            R == resources.items
        IN  /\ \A j \in DOMAIN result.items : result.items[j].category = c
            /\ \A v \in Range(R) \cup Range(result.items) :
                   occurrences(result.items, v) =
                       IF v.category = c THEN occurrences(R, v) ELSE 0
            /\ (\A i \in DOMAIN R : R[i].category # c) => result.items = <<>>

C4_Witness ==
    /\ op = "filterByCategory"
    /\ Len(resources.items) = MaxLen
    /\ Len(result.items) = 1
    /\ result.items[1] = resources.items[MaxLen]

\* C5: filterBySubcategory(R, s) returns exactly the records with subcategory
\* s whatever their category; filterByCategoryAndSubcategory(R, c, s) returns
\* exactly the records with category c and subcategory s, which is what
\* either composition of filterByCategory and filterBySubcategory returns.
C5_SubcategoryFilters ==
    /\ op = "filterBySubcategory" =>
          \A v \in Range(resources.items) \cup Range(result.items) :
              occurrences(result.items, v) =
                  IF v.subcategory = args.subcategory
                  THEN occurrences(resources.items, v) ELSE 0
    /\ op = "filterByCategoryAndSubcategory" =>
          LET c == args.category
              sc == args.subcategory
          IN  /\ \A v \in Range(resources.items) \cup Range(result.items) :
                     occurrences(result.items, v) =
                         IF v.category = c /\ v.subcategory = sc
                         THEN occurrences(resources.items, v) ELSE 0
              /\ result.items =
                     filterBySubcategory(filterByCategory(resources, c),
                                         sc).items
              /\ result.items =
                     filterByCategory(filterBySubcategory(resources, sc),
                                      c).items

C5_Witness ==
    /\ op = "filterByCategoryAndSubcategory"
    /\ Len(resources.items) = MaxLen
    /\ Len(result.items) = 1
    /\ \E i \in DOMAIN resources.items :
           /\ resources.items[i].category = args.category
           /\ resources.items[i].subcategory # args.subcategory

\* C9: getCategoryResourceCounts(R) has an entry for exactly the categories
\* that occur in R, each holding the number of records with that category,
\* and its values sum to R.length.
C9_CategoryCounts ==
    op = "getCategoryResourceCounts" =>
        LET R == resources.items
        IN  /\ DOMAIN result = {R[i].category : i \in DOMAIN R}
            /\ \A c \in DOMAIN result :
                   result[c] =
                       Cardinality({i \in DOMAIN R : R[i].category = c})
            /\ sumValues(result) = Len(R)

C9_Witness ==
    /\ op = "getCategoryResourceCounts"
    /\ Len(resources.items) = MaxLen
    /\ \E c \in DOMAIN result : result[c] = MaxLen

\* C10: getSubcategoryResourceCounts(R, c) maps each subcategory s to the
\* number of records with category c and subcategory s, and its values sum
\* to getResourceCountForCategory(R, c), the number of records with
\* category c.
C10_SubcategoryCounts ==
    /\ op = "getSubcategoryResourceCounts" =>
          LET R == resources.items
              c == args.category
              n(sc) == Cardinality({i \in DOMAIN R :
                          R[i].category = c /\ R[i].subcategory = sc})
          IN  /\ DOMAIN result = {sc \in SubcategoryArgs : n(sc) > 0}
              /\ \A sc \in DOMAIN result : result[sc] = n(sc)
              /\ sumValues(result) = getResourceCountForCategory(resources, c)
    /\ op = "getResourceCountForCategory" =>
          result = Cardinality({i \in DOMAIN resources.items :
                       resources.items[i].category = args.category})

C10_Witness ==
    /\ op = "getSubcategoryResourceCounts"
    /\ Len(resources.items) = MaxLen
    /\ sumValues(result) = 1
    /\ \E i \in DOMAIN resources.items :
           resources.items[i].category # args.category

\* C11: in enrichCategoriesWithCounts(C, R) every category k carries the
\* number of records with category k.id and every subcategory entry s of k
\* the number of records with category k.id and subcategory s.id, whatever
\* s.parentCategory is; validateCategoryCounts accepts that result.
C11_EnrichedCounts ==
    /\ op = "enrichCategoriesWithCounts" =>
          LET R == resources.items
          IN  /\ Len(result) = Len(args.categories)
              /\ \A i \in DOMAIN result :
                    LET k == result[i]
                    IN  /\ k.id = args.categories[i].id
                        /\ k.resourceCount = Cardinality(
                               {n \in DOMAIN R : R[n].category = k.id})
                        /\ Len(k.subcategoriesWithCount) =
                               Len(args.categories[i].subcategories)
                        /\ \A j \in DOMAIN k.subcategoriesWithCount :
                               LET sc == k.subcategoriesWithCount[j]
                               IN  /\ sc.id =
                                       args.categories[i].subcategories[j].id
                                   /\ sc.resourceCount = Cardinality(
                                        {n \in DOMAIN R :
                                           /\ R[n].category = k.id
                                           /\ R[n].subcategory = sc.id})
    /\ op = "validateCategoryCounts" =>
          LET C == [i \in DOMAIN args.categories |->
                       Category(args.categories[i].id,
                                args.categories[i].subcategories)]
          IN  args.categories = enrichCategoriesWithCounts(C, resources)
                  => result = TRUE

C11_Witness ==
    /\ op = "enrichCategoriesWithCounts"
    /\ Len(resources.items) = MaxLen
    /\ \E i \in DOMAIN result :
         \E j \in DOMAIN result[i].subcategoriesWithCount :
            LET sc == result[i].subcategoriesWithCount[j]
            IN  /\ sc.parentCategory # result[i].id
                /\ sc.resourceCount = 1
                /\ result[i].resourceCount = MaxLen
                /\ validateCategoryCounts(result, resources)

(***************************************************************************)
(* Properties of the search matcher.                                       *)
(***************************************************************************)
\* C6: a query that is empty after trimming returns all of R; any other
\* query returns exactly the records in which the lower-cased trimmed query
\* is a substring of the lower-cased name, nameJa (when present),
\* description, descriptionLong (when present) or of some lower-cased tag.
C6_SearchExact ==
    op = "searchResources" =>
        LET q == toLowerCase(trim(args.query))
            in(text) == strIncludes(toLowerCase(text), q)
            matches(r) ==
                \/ in(r.name)
                \/ r.nameJa # Undefined /\ in(r.nameJa)
                \/ in(r.description)
                \/ r.descriptionLong # Undefined /\ in(r.descriptionLong)
                \/ \E t \in Range(r.tags) : in(t)
        IN  IF trim(args.query) = <<>>
            THEN result.items = resources.items
            ELSE result.items = SelectSeq(resources.items, matches)

C6_Witness ==
    /\ op = "searchResources"
    /\ args.query = <<"sp", "S">>
    /\ Len(resources.items) = MaxLen
    /\ Len(result.items) = 1
    /\ \E t \in Range(result.items[1].tags) : t = <<"S", "s">>

\* C7: searchResources(R, q.toLowerCase()), searchResources(R, q.toUpperCase())
\* and searchResources(R, q) return the same number of records and the same
\* set of record ids.
C7_CaseInsensitive ==
    op = "searchResources" =>
        LET lower == searchResources(resources, toLowerCase(args.query)).items
            upper == searchResources(resources, toUpperCase(args.query)).items
            mixed == result.items
        IN  /\ Len(lower) = Len(upper)
            /\ Len(lower) = Len(mixed)
            /\ ids(lower) = ids(upper)
            /\ ids(lower) = ids(mixed)

\* C8: resourceMatchesQuery(r, q) is true exactly when r is among the records
\* that searchResources(R, q) returns, for every record r of R and every
\* query q, blank queries included.
C8_MatchesConsistent ==
    op = "resourceMatchesQuery" =>
        (result = TRUE <=>
            args.resource \in
                Range(searchResources(resources, args.query).items))

C8_Witness ==
    /\ op = "resourceMatchesQuery"
    /\ args.query = <<"S", "sp">>
    /\ result = TRUE
    /\ Len(resources.items) = MaxLen
    /\ Len(searchResources(resources, args.query).items) = 1

(***************************************************************************)
(* Properties of the stroke serializer.                                    *)
(***************************************************************************)
\* two arrays of numbers are equal element for element under ===
numbersEqual(a, b) ==
    /\ Len(a.items) = Len(b.items)
    /\ \A i \in DOMAIN a.items : numberStrictEquals(a.items[i], b.items[i])

pointsEqual(a, b) ==
    /\ Len(a.items) = Len(b.items)
    /\ \A i \in DOMAIN a.items :
          \A f \in {"x", "y", "timestamp"} :
              numberStrictEquals(get(a.items[i], f), get(b.items[i], f))

\* field-for-field equality of two arrays of valid strokes
strokeDataArraysEqual(a, b) ==
    /\ Len(a.items) = Len(b.items)
    /\ \A i \in DOMAIN a.items :
          LET s1 == a.items[i]
              s2 == b.items[i]
          IN  /\ get(s1, "id") = get(s2, "id")
              /\ numberStrictEquals(get(s1, "startTime"),
                                    get(s2, "startTime"))
              /\ numberStrictEquals(get(s1, "endTime"), get(s2, "endTime"))
              /\ pointsEqual(get(s1, "points"), get(s2, "points"))
              /\ (get(s1, "pressure") = JsUndefined)
                    = (get(s2, "pressure") = JsUndefined)
              /\ get(s1, "pressure") # JsUndefined /\
                 get(s2, "pressure") # JsUndefined
                    => numbersEqual(get(s1, "pressure"), get(s2, "pressure"))

allValid(strokes) ==
    \A i \in DOMAIN strokes.items : isValidStrokeData(strokes.items[i])

\* C12: reading back the serialization of an array whose strokes all pass
\* the serializer's validation returns an array equal to it field for
\* field.
C12_RoundTrip ==
    (op = "deserialize" /\ "strokes" \in DOMAIN args /\ allValid(args.strokes))
        => /\ ~result.threw
           /\ strokeDataArraysEqual(result.value, args.strokes)

\* C13: deserialize returns normally exactly when the text is JSON whose
\* top level is an array of elements that all pass the validation; it
\* throws otherwise, and for an invalid element the message carries the
\* smallest index of an invalid element.
C13_DeserializeThrows ==
    op = "deserialize" =>
        LET json == args.json
            wellFormed == json.k = "json"
            array == wellFormed /\ isArray(json.doc)
            bad == IF array
                   THEN {i \in 0..(Len(json.doc.items) - 1) :
                            ~isValidStrokeData(json.doc.items[i + 1])}
                   ELSE {}
        IN  /\ ~result.threw <=> (array /\ bad = {})
            /\ ~result.threw => result.value = json.doc
            /\ ~wellFormed => result = Thrown(<<"SyntaxError">>)
            /\ (wellFormed /\ ~array) =>
                  result = Thrown(<<"Invalid stroke data: expected an array">>)
            /\ bad # {} =>
                  /\ result.threw
                  /\ result.message[1] = "Invalid stroke data at index"
                  /\ result.message[2] \in bad
                  /\ \A j \in bad : result.message[2] <= j

\* a text whose first element is valid and whose second is not is read, and
\* the error names index 1
C13_Witness ==
    /\ op = "deserialize"
    /\ args.json.k = "json"
    /\ isArray(args.json.doc)
    /\ Len(args.json.doc.items) = 2
    /\ isValidStrokeData(args.json.doc.items[1])
    /\ ~isValidStrokeData(args.json.doc.items[2])
    /\ result = Thrown(<<"Invalid stroke data at index", 1>>)

(***************************************************************************)
(* Properties of the resource validator.                                   *)
(***************************************************************************)
fieldsOf(entries) == {entries[i].field : i \in DOMAIN entries}

Required == Range(REQUIRED_RESOURCE_FIELDS)

\* the value is what the claim counts as missing for the field
missingKind(v, field) ==
    \/ v = JsUndefined
    \/ v.t = "string" /\ \A i \in DOMAIN v.s : v.s[i] = "sp"
    \/ field \in {"tags", "platforms"} /\ v = JsArray(<<>>)

nonBlank(v) == v.t = "string" /\ \E i \in DOMAIN v.s : v.s[i] # "sp"

\* the value is one the Resource type allows for the field
validValue(v, field) ==
    CASE field = "category" -> v \in CATEGORY_IDS
      [] field = "difficulty" -> v \in DIFFICULTY_LEVELS
      [] field = "priceType" -> v \in PRICE_TYPES
      [] field = "tags" ->
            /\ v.t = "array" /\ v.items # <<>>
            /\ \A i \in DOMAIN v.items : nonBlank(v.items[i])
      [] field = "platforms" ->
            /\ v.t = "array" /\ v.items # <<>>
            /\ \A i \in DOMAIN v.items : v.items[i] \in PLATFORMS
      [] field = "rating" ->
            \/ v = JsUndefined
            \/ v.t = "number" /\ v.k = "finite" /\ 1 <= v.n /\ v.n <= 5
      [] field = "featured" -> v = JsUndefined \/ v.t = "boolean"
      [] OTHER -> nonBlank(v)

\* every property but the given ones holds a valid value
validExcept(r, fields) ==
    /\ r.t = "object"
    /\ \A g \in FieldNames \ fields : validValue(get(r, g), g)

\* C14: for a record whose required fields are each valid or missing (absent,
\* an empty or whitespace-only string, or for tags and platforms an empty
\* array), missingFields lists exactly the missing ones; for null and
\* undefined it lists all ten required fields and success is false.
C14_MissingFields ==
    op = "validateResource" =>
        LET r == args.resource
            gone == IF r.t = "object"
                    THEN {f \in Required : missingKind(get(r, f), f)}
                    ELSE {}
        IN  /\ r \in {JsNull, JsUndefined} =>
                  /\ ~result.threw
                  /\ ~result.success
                  /\ Range(result.missingFields) = Required
                  /\ Len(result.missingFields) = 10
            /\ (r.t = "object" /\ validExcept(r, gone)) =>
                  /\ ~result.threw
                  /\ Range(result.missingFields) = gone
                  /\ Len(result.missingFields) = Cardinality(gone)
                  /\ result.success <=> gone = {}

\* a record without name and tags and with a blank url is validated
C14_Witness ==
    /\ op = "validateResource"
    /\ args.resource.t = "object"
    /\ \E f \in Required : f \notin DOMAIN args.resource.fields
    /\ ~result.threw
    /\ Len(result.missingFields) >= 2
    /\ "tags" \in Range(result.missingFields)

\* the platforms entries of which exactly one is no word of the enumeration
oneOutside(v) ==
    /\ v.t = "array"
    /\ Cardinality({i \in DOMAIN v.items : v.items[i] \notin PLATFORMS}) = 1

\* the field holds a value outside its enumeration in an otherwise valid
\* record
outsideEnumeration(r, field) ==
    /\ validExcept(r, {field})
    /\ get(r, field) # JsUndefined
    /\ CASE field = "category" -> get(r, field) \notin CATEGORY_IDS
         [] field = "difficulty" -> get(r, field) \notin DIFFICULTY_LEVELS
         [] field = "priceType" -> get(r, field) \notin PRICE_TYPES
         [] field = "platforms" -> oneOutside(get(r, field))

\* the value outside the enumeration is a string, and for category,
\* difficulty and priceType one that is not empty or whitespace-only
outsideString(r, field) ==
    IF field = "platforms"
    THEN \A i \in DOMAIN get(r, field).items :
            get(r, field).items[i].t = "string"
    ELSE nonBlank(get(r, field))

EnumFields == {"category", "difficulty", "priceType", "platforms"}

reportsExactly(field) ==
    /\ ~result.threw
    /\ ~result.success
    /\ fieldsOf(result.invalidFields) = {field}
    /\ result.missingFields = <<>>

withinRange(v) == v.t = "number" /\ v.k = "finite" /\ 1 <= v.n /\ v.n <= 5

\* C16: a returned result reports rating when a present rating is no number
\* within [1, 5] and featured when a present featured is no boolean, so
\* success implies a present rating within [1, 5] and a boolean featured.
C16_RatingFeatured ==
    (op = "validateResource" /\ args.resource.t = "object" /\ ~result.threw)
        => LET rating == get(args.resource, "rating")
               featured == get(args.resource, "featured")
               reported == fieldsOf(result.invalidFields)
           IN  /\ (rating # JsUndefined /\ ~withinRange(rating))
                     => "rating" \in reported
               /\ (featured # JsUndefined /\ featured.t # "boolean")
                     => "featured" \in reported
               /\ result.success =>
                     /\ rating # JsUndefined => withinRange(rating)
                     /\ featured # JsUndefined => featured.t = "boolean"

\* C17: validateResource returns a result for every input value, and
\* success is true exactly when both lists are empty.
C17_NeverThrows ==
    op = "validateResource" =>
        /\ ~result.threw
        /\ result.success
             <=> (result.missingFields = <<>> /\ result.invalidFields = <<>>)

C22_Debounced ==
    /\ [](/\ rendered.results = searchResources(resources, debouncedQuery)
          /\ rendered.isLoading = (hookQuery # debouncedQuery))
    /\ \A q \in HookQueries :
          (hookQuery = q)
              ~> \/ debouncedQuery = q /\ hookQuery = q
                                       /\ ~rendered.isLoading
                 \/ hookQuery # q

\* a typed query has become the debounced query and narrowed the results
C22_Witness ==
    /\ op = "timeout"
    /\ hookQuery # <<>>
    /\ debouncedQuery = hookQuery
    /\ ~rendered.isLoading
    /\ Len(rendered.results.items) < Len(resources.items)

\* C24: after every step at most one timeout is pending, and a step that
\* changes debouncedQuery sets it to the query of that moment.
C24_NoStaleTimer ==
    [][/\ Cardinality(DOMAIN timers') <= 1
       /\ debouncedQuery' # debouncedQuery => debouncedQuery' = hookQuery']_vars

\* clearSearch was called on a non-empty query: its effect has replaced the
\* timeout of that query by one that captures the empty query
C24_Witness ==
    /\ op = "clearSearch"
    /\ hookQuery = <<>>
    /\ debouncedQuery = <<>>
    /\ effectTimer \in DOMAIN timers
    /\ timers[effectTimer] = [query |-> <<>>, remaining |-> DebounceMs]

(***************************************************************************)
(* Properties of the FilterPanel and of the page's filters state.          *)
(***************************************************************************)
\* the three selections of an ActiveFilters object
selection(f) == <<f.difficulty, f.priceType, f.platforms>>

\* the event of the state is a change made through the FilterPanel
panelChange(o, a) ==
    \/ o \in {"handleDifficultyChange", "handlePriceChange",
               "handlePlatformChange", "handleClearAll"}
    \/ o = "handleRemoveFilter" /\ a.filterType # "search"

\* C23: every interaction of the FilterPanel replaces the page's filters by
\* the filters the panel was rendered with, changed in its own part only: a
\* new difficulty, price or platform selection changes that dimension alone;
\* removing a tag removes that value, and nothing else, from that dimension
\* alone; 'Clear all' empties the three selections and keeps the search
\* string; a remove request for "search" changes nothing; and
\* handleSearchChange changes only the search string of the page's filters.
C23_OwnPartOnly ==
    [][/\ op' = "handleDifficultyChange" =>
            activeFilters' = ActiveFilters(args'.difficulty,
                                           panelFilters.priceType,
                                           panelFilters.platforms,
                                           panelFilters.search)
       /\ op' = "handlePriceChange" =>
            activeFilters' = ActiveFilters(panelFilters.difficulty,
                                           args'.priceType,
                                           panelFilters.platforms,
                                           panelFilters.search)
       /\ op' = "handlePlatformChange" =>
            activeFilters' = ActiveFilters(panelFilters.difficulty,
                                           panelFilters.priceType,
                                           args'.platforms,
                                           panelFilters.search)
       /\ op' = "handleRemoveFilter" /\ args'.filterType # "search" =>
            \A key \in FilterKeys :
                IF key = args'.filterType
                THEN /\ Range(activeFilters'[key]) =
                            Range(panelFilters[key]) \ {args'.value}
                     /\ Len(activeFilters'[key]) = Len(panelFilters[key]) - 1
                ELSE activeFilters'[key] = panelFilters[key]
       /\ op' = "handleRemoveFilter" /\ args'.filterType = "search" =>
            activeFilters' = activeFilters
       /\ op' = "handleClearAll" =>
            /\ selection(activeFilters') = <<<<>>, <<>>, <<>>>>
            /\ activeFilters'.search = panelFilters.search
       /\ op' = "handleSearchChange" =>
            /\ selection(activeFilters') = selection(activeFilters)
            /\ activeFilters'.search = args'.search]_vars

\* C23 witness: a tag was removed from a panel that showed two difficulty
\* levels, a price and a search string, and the panel has not rendered since
C23_Witness ==
    /\ op = "handleRemoveFilter"
    /\ args.filterType = "difficulty"
    /\ Len(panelFilters.difficulty) = 2
    /\ Len(activeFilters.difficulty) = 1
    /\ activeFilters.priceType # <<>>
    /\ activeFilters.search # <<>>

shareTag(a, b) == Range(a.tags) \cap Range(b.tags) # {}

\* C26: after any sequence of selections, from the grid or from the related
\* list of the modal, and closes, the modal is open only if a resource is
\* selected; a close leaves the modal closed and no resource selected; and
\* the related resources of the selected resource do not include it, are at
\* most four, and each has its category or one of its tags.
C26_ModalState ==
    /\ isModalOpen => selectedResource # Null
    /\ op = "handleModalClose" => ~isModalOpen /\ selectedResource = Null
    /\ selectedResource # Null =>
          LET related == relatedResources(resources, selectedResource).items
          IN  /\ Len(related) <= 4
              /\ \A i \in DOMAIN related :
                     /\ related[i] # selectedResource
                     /\ \/ related[i].category = selectedResource.category
                        \/ shareTag(related[i], selectedResource)

\* C26 witness: a resource is selected and the modal is open, more than
\* four other records of the page have its category or one of its tags, one
\* record of the page has neither, and four related resources are shown
C26_Witness ==
    /\ op = "handleResourceSelect"
    /\ isModalOpen
    /\ selectedResource # Null
    /\ Cardinality({i \in DOMAIN resources.items :
                       /\ resources.items[i] # selectedResource
                       /\ \/ resources.items[i].category =
                                 selectedResource.category
                          \/ shareTag(resources.items[i],
                                      selectedResource)}) > 4
    /\ \E i \in DOMAIN resources.items :
           /\ resources.items[i].category # selectedResource.category
           /\ ~shareTag(resources.items[i], selectedResource)
    /\ Len(relatedResources(resources, selectedResource).items) = 4

(***************************************************************************)
(* Properties of the page pipeline.                                        *)
(***************************************************************************)
\* C27: search and filtering commute in the page pipeline: the list the
\* page displays is combineFilters(searchResources(R, f.search), f), it has
\* the records, in the order, of
\* searchResources(combineFilters(R, f), f.search), and it is R whenever
\* hasActiveFilters(f) is false.
C27_SearchFilterCommute ==
    LET f == activeFilters
        searchFirst == combineFilters(searchResources(resources, f.search), f)
        filterFirst == searchResources(combineFilters(resources, f), f.search)
    IN  /\ op = "filteredResources" => result.items = searchFirst.items
        /\ searchFirst.items = filterFirst.items
        /\ ~hasActiveFilters(f) => searchFirst.items = resources.items

\* C27 witness: the page displayed a list from which the search alone and
\* the filters alone each leave out a record, and which is not empty
C27_Witness ==
    /\ op = "filteredResources"
    /\ Len(result.items) > 0
    /\ Len(searchResources(resources, activeFilters.search).items)
           < Len(resources.items)
    /\ Len(combineFilters(resources, activeFilters).items)
           < Len(resources.items)

\* some location of a getSearchMatchLocations result reports a match
anyLocation(locations) ==
    \/ locations.name
    \/ locations.nameJa
    \/ locations.description
    \/ locations.descriptionLong
    \/ Len(locations.tags) > 0

\* C28: for a query that is not blank, resourceMatchesQuery is true exactly
\* when getSearchMatchLocations reports the name, the Japanese name, the
\* description, the long description or some tag; for a blank query
\* resourceMatchesQuery is true and getSearchMatchLocations reports nothing.
C28_LocationsAgree ==
    /\ op = "getSearchMatchLocations" =>
          IF Len(trim(args.query)) > 0
          THEN resourceMatchesQuery(args.resource, args.query)
                  <=> anyLocation(result)
          ELSE resourceMatchesQuery(args.resource, args.query)
                  /\ ~anyLocation(result)
    /\ op = "resourceMatchesQuery" =>
          LET locations == getSearchMatchLocations(args.resource, args.query)
          IN  IF Len(trim(args.query)) > 0
              THEN result <=> anyLocation(locations)
              ELSE result /\ ~anyLocation(locations)

\* C28 witness: getSearchMatchLocations was called with a query that is not
\* blank and reported a tag and no other location
C28_Witness ==
    /\ op = "getSearchMatchLocations"
    /\ Len(trim(args.query)) > 0
    /\ Len(result.tags) > 0
    /\ ~result.name /\ ~result.nameJa
    /\ ~result.description /\ ~result.descriptionLong

(***************************************************************************)
(* Properties of the data module.                                          *)
(***************************************************************************)
\* the records getAllResources returns in the current state
allResources ==
    getAllResources(resourcesByCategory, allResourcesCache)

\* C29: for every category id c, getResourcesByCategory(c) holds exactly
\* the records of getAllResources() whose category is c,
\* getCategoryResourceCount(c) is the length of
\* filterByCategory(getAllResources(), c), and every call of
\* getAllResources returns the same records in the same order.
C29_LookupAgreesWithCategory ==
    /\ op = "getResourcesByCategory" =>
          /\ "items" \in DOMAIN result
          /\ \A r \in Range(result.items) \cup Range(allResources.items) :
                 occurrences(result.items, r) =
                    occurrences(filterByCategory(allResources,
                                                 args.categoryId).items, r)
    /\ op = "getCategoryResourceCount" =>
          result = Len(filterByCategory(allResources, args.categoryId).items)
    /\ op = "getAllResources" =>
          result.items = flatValues(resourcesByCategory, 1)

(***************************************************************************)
(* Properties of the keyboard navigation of ResourceGrid.                  *)
(***************************************************************************)
\* C30: in a grid of n >= 1 cards with any number of columns, the focus
\* stays on a card of the grid under every sequence of key presses; an
\* arrow key moves one card, or one row, and stops at the first and at the
\* last card instead of wrapping; Home goes to the first card, End to the
\* last, and any other key leaves the focus where it is.
C30_FocusStaysInGrid ==
    /\ [](focusedIndex \in 0..(itemCount - 1))
    /\ [][op' = "handleKeyDown" =>
            LET key == args'.key
                last == itemCount - 1
            IN  /\ key = "ArrowRight" =>
                      focusedIndex' = IF focusedIndex = last THEN last
                                      ELSE focusedIndex + 1
                /\ key = "ArrowLeft" =>
                      focusedIndex' = IF focusedIndex = 0 THEN 0
                                      ELSE focusedIndex - 1
                /\ key = "ArrowDown" =>
                      focusedIndex' = IF focusedIndex + columns > last
                                      THEN last
                                      ELSE focusedIndex + columns
                /\ key = "ArrowUp" =>
                      focusedIndex' = IF focusedIndex - columns < 0 THEN 0
                                      ELSE focusedIndex - columns
                /\ key = "Home" => focusedIndex' = 0
                /\ key = "End" => focusedIndex' = last
                /\ key \notin NavigationKeys =>
                      focusedIndex' = focusedIndex]_vars

\* C30 witness: ArrowRight was pressed on the last card of a grid of several
\* cards and columns, and the focus is still on the last card
C30_Witness ==
    /\ op = "handleKeyDown"
    /\ args.key = "ArrowRight"
    /\ itemCount > 2
    /\ columns > 1
    /\ args.currentIndex = itemCount - 1
    /\ focusedIndex = itemCount - 1

====
